---- MODULE Spec2Model ----
(***************************************************************************)
(* Text-to-transaction extraction pipeline of FinBuddy:                    *)
(*   backend/parsers/sms_parser.py            (rule-based extractor)       *)
(*   backend/services/ai_agents/categorization_agent.py (Category          *)
(*                                              Classifier)                *)
(*   backend/services/ai_agents/sms_agent.py  (provider cascade)           *)
(*   backend/services/ai_orchestrator.py      (process_sms, process_voice) *)
(*                                                                         *)
(* Python strings are sequences of one-character strings, so `in`,         *)
(* str.lower, str.split, str.title and the regular expressions are         *)
(* computed character by character as the code computes them.  A float is  *)
(* an integer number of hundredths (500.0 is 50000).                       *)
(***************************************************************************)
EXTENDS Integers, Sequences, FiniteSets, TLC

(***************************************************************************)
(* Characters and the str methods the code uses.                           *)
(***************************************************************************)
Digits == {"0", "1", "2", "3", "4", "5", "6", "7", "8", "9"}

DigitSeq == <<"0", "1", "2", "3", "4", "5", "6", "7", "8", "9">>

LowerSeq == <<"a", "b", "c", "d", "e", "f", "g", "h", "i", "j", "k", "l", "m",
              "n", "o", "p", "q", "r", "s", "t", "u", "v", "w", "x", "y", "z">>

UpperSeq == <<"A", "B", "C", "D", "E", "F", "G", "H", "I", "J", "K", "L", "M",
              "N", "O", "P", "Q", "R", "S", "T", "U", "V", "W", "X", "Y", "Z">>

LowerLetters == {LowerSeq[i] : i \in 1..26}

UpperLetters == {UpperSeq[i] : i \in 1..26}

Letters == LowerLetters \cup UpperLetters

\* \w of the re module (ASCII part)
WordChars == Letters \cup Digits \cup {"_"}

\* \s of the re module, str.split() and str.strip()
Whitespace == {" ", "\t", "\n", "\r"}

\* the currency sign of AMOUNT_PATTERNS[2] and of _normalize_result
Rupee == "₹"

Min(S) == CHOOSE x \in S : \A y \in S : x <= y

Max(S) == CHOOSE x \in S : \A y \in S : x >= y

lower_char(c) ==
    IF c \in UpperLetters
    THEN LowerSeq[CHOOSE i \in 1..26 : UpperSeq[i] = c]
    ELSE c

upper_char(c) ==
    IF c \in LowerLetters
    THEN UpperSeq[CHOOSE i \in 1..26 : LowerSeq[i] = c]
    ELSE c

\* str.lower()
lower(s) == [i \in 1..Len(s) |-> lower_char(s[i])]

\* str.strip()
strip(s) ==
    LET keep == {i \in 1..Len(s) : s[i] \notin Whitespace}
    IN  IF keep = {} THEN <<>> ELSE SubSeq(s, Min(keep), Max(keep))

\* str.title(): a letter is upper-cased when the character before it is not
\* a letter and lower-cased otherwise
title(s) ==
    [i \in 1..Len(s) |->
        IF s[i] \in Letters
        THEN IF i > 1 /\ s[i - 1] \in Letters
             THEN lower_char(s[i])
             ELSE upper_char(s[i])
        ELSE s[i]]

\* str.replace(c, "") for a one-character c
RECURSIVE remove_char(_, _)
remove_char(s, c) ==
    IF s = <<>> THEN <<>>
    ELSE IF Head(s) = c THEN remove_char(Tail(s), c)
         ELSE <<Head(s)>> \o remove_char(Tail(s), c)

\* w occurs in s at index i
MatchAt(w, s, i) ==
    /\ i >= 1
    /\ i + Len(w) - 1 <= Len(s)
    /\ \A k \in 1..Len(w) : s[i + k - 1] = w[k]

\* the `in` operator on two strings
contains(w, s) == \E i \in 1..(Len(s) - Len(w) + 1) : MatchAt(w, s, i)

\* the index of the last character of the longest run of characters of C
\* that starts at index i (i - 1 when there is none)
RunEnd(s, i, C) ==
    LET stop == {j \in i..Len(s) : s[j] \notin C}
    IN  IF stop = {} THEN Len(s) ELSE Min(stop) - 1

\* str.split(): the maximal runs of non-whitespace characters, in order
RECURSIVE split_from(_, _)
split_from(s, i) ==
    IF i > Len(s) THEN <<>>
    ELSE IF s[i] \in Whitespace THEN split_from(s, i + 1)
    ELSE LET stop == {j \in i..Len(s) : s[j] \in Whitespace}
             e == IF stop = {} THEN Len(s) ELSE Min(stop) - 1
         IN  <<SubSeq(s, i, e)>> \o split_from(s, e + 1)

split(s) == split_from(s, 1)

\* " ".join(parts)
RECURSIVE join(_)
join(parts) ==
    IF parts = <<>> THEN <<>>
    ELSE IF Len(parts) = 1 THEN parts[1]
    ELSE parts[1] \o <<" ">> \o join(Tail(parts))

(***************************************************************************)
(* float(s) for the strings the extractors hand it: an optional sign,      *)
(* digits, an optional point, digits, with surrounding whitespace ignored. *)
(* The result is in hundredths; ok = FALSE stands for ValueError.          *)
(***************************************************************************)
DigitVal(c) == CHOOSE d \in 0..9 : DigitSeq[d + 1] = c

RECURSIVE ParseNat(_)
ParseNat(s) ==
    IF s = <<>> THEN 0
    ELSE ParseNat(SubSeq(s, 1, Len(s) - 1)) * 10 + DigitVal(s[Len(s)])

\* the value of the unsigned s, whose only point, if any, is at index p
float_value(s, p) ==
    ParseNat(SubSeq(s, 1, p - 1)) * 100
        + ParseNat(SubSeq(SubSeq(s, p + 1, Len(s)) \o <<"0", "0">>, 1, 2))

float_unsigned(s, neg) ==
    IF /\ \A i \in 1..Len(s) : s[i] \in Digits \cup {"."}
       /\ Cardinality({i \in 1..Len(s) : s[i] = "."}) <= 1
       /\ \E i \in 1..Len(s) : s[i] \in Digits
    THEN [ok |-> TRUE,
          v  |-> (IF neg THEN 0 - 1 ELSE 1)
                 * float_value(s, Min({i \in 1..Len(s) : s[i] = "."}
                                      \cup {Len(s) + 1}))]
    ELSE [ok |-> FALSE, v |-> 0]

float_stripped(s0) ==
    float_unsigned(IF s0 # <<>> /\ s0[1] \in {"-", "+"} THEN Tail(s0) ELSE s0,
                   s0 # <<>> /\ s0[1] = "-")

float(str) == float_stripped(strip(str))

(***************************************************************************)
(* Values that cross the JSON boundary or may be of any Python type are    *)
(* tagged: a str carries its characters, a number its hundredths.          *)
(***************************************************************************)
JStr(s) == [t |-> "str", s |-> s, n |-> 0]

JNum(n) == [t |-> "num", s |-> <<>>, n |-> n]

JNull == [t |-> "null", s |-> <<>>, n |-> 0]

\* the result of a call: a value, or an exception that propagates
Ret(v) == [raised |-> FALSE, val |-> v]

Raise == [raised |-> TRUE, val |-> <<>>]

(***************************************************************************)
(* The texts of the model.                                                 *)
(***************************************************************************)
\* texts handed to analyze_sms and process_sms; JNull is a caller passing
\* something that is no str
SMS_TEXTS ==
    { JStr(<<"P", "a", "i", "d", " ", "R", "s", ".", " ", "5", "0", "0", " ", "t", "o", " ", "S", "w", "i", "g", "g", "y", " ", "f", "o", "r", " ", "d", "i", "n", "n", "e", "r">>),
      JStr(<<"S", "a", "l", "a", "r", "y", " ", "o", "f", " ", "I", "N", "R", " ", "4", "5", "0", "0", "0", " ", "c", "r", "e", "d", "i", "t", "e", "d">>),
      JStr(<<"t", "h", "a", "n", "k", "s", " ", "f", "o", "r", " ", "t", "h", "e", " ", "u", "p", "d", "a", "t", "e">>),
      JStr(<<"s", "e", "n", "t", " ", "3", "0", "0", "0", "0", " ", "v", "i", "a", " ", "u", "p", "i">>),
      JNull }

\* what speech_to_text returns: its two sentinels, nothing, or a transcript
TRANSCRIPTS ==
    { <<>>,
      <<"V", "o", "i", "c", "e", " ", "i", "n", "p", "u", "t", " ", "u", "n", "a", "v", "a", "i", "l", "a", "b", "l", "e">>,
      <<"V", "o", "i", "c", "e", " ", "r", "e", "c", "o", "g", "n", "i", "t", "i", "o", "n", " ", "f", "a", "i", "l", "e", "d">>,
      <<" ", "a", "d", "d", " ", "e", "x", "p", "e", "n", "s", "e", " ", "5", "0", "0", " ", "f", "o", "o", "d", " ">>,
      <<"P", "a", "i", "d", " ", "R", "s", ".", " ", "5", "0", "0", " ", "t", "o", " ", "S", "w", "i", "g", "g", "y", " ", "f", "o", "r", " ", "d", "i", "n", "n", "e", "r">> }

\* further texts handed to the classifiers alone: keywords of two categories
\* in either order
CLASSIFIER_TEXTS ==
    { <<"s", "w", "i", "g", "g", "y", " ", "r", "e", "f", "u", "n", "d", " ", "o", "f", " ", "r", "s", " ", "1", "2", "0">>,
      <<"r", "e", "f", "u", "n", "d", " ", "f", "o", "r", " ", "s", "w", "i", "g", "g", "y", " ", "o", "r", "d", "e", "r">>,
      <<"p", "e", "t", "r", "o", "l", " ", "b", "i", "l", "l", " ", "p", "a", "i", "d">> }

\* further texts handed to the rule-based extractors alone: an amount of 0
\* with a bare number after it, a pattern whose capture is no number,
\* amount patterns and both kinds of keyword in either order, a capture of
\* one character, a capture of noise words only
PARSER_TEXTS ==
    { <<"f", "e", "e", " ", "r", "s", " ", "0", " ", "r", "e", "f", " ", "4", "5", "0", "0">>,
      <<"i", "n", "r", " ", ",", " ", "r", "s", " ", "2", "5", "0">>,
      <<"r", "e", "c", "e", "i", "v", "e", "d", " ", "r", "s", " ", "2", "0", "0", " ", "i", "n", "r", " ", "1", "0", "0", " ", "p", "a", "i", "d">>,
      <<"f", "r", "o", "m", " ", "a", ",", " ", "t", "o", " ", "a", "m", "a", "z", "o", "n">>,
      <<"s", "e", "n", "t", " ", "t", "o", " ", "u", "p", "i", " ", "r", "e", "f">> }

\* every str that reaches the extractors
TEXT_POOL ==
    {t.s : t \in {x \in SMS_TEXTS : x.t = "str"}} \cup {strip(t) : t \in TRANSCRIPTS}
        \cup CLASSIFIER_TEXTS \cup PARSER_TEXTS

(***************************************************************************)
(* backend/utils/constants.py: CATEGORY_RULES, in insertion order.         *)
(***************************************************************************)
CATEGORY_RULES ==
    <<[keyword |-> <<"s", "a", "l", "a", "r", "y">>, category |-> "Income: Salary"],
      [keyword |-> <<"c", "r", "e", "d", "i", "t", "e", "d">>, category |-> "Income: Other"],
      [keyword |-> <<"c", "r", "e", "d", "i", "t">>, category |-> "Income: Other"],
      [keyword |-> <<"n", "e", "f", "t">>, category |-> "Income: Transfer"],
      [keyword |-> <<"i", "m", "p", "s">>, category |-> "Income: Transfer"],
      [keyword |-> <<"u", "p", "i", " ", "r", "e", "c", "e", "i", "v", "e", "d">>, category |-> "Income: Transfer"],
      [keyword |-> <<"p", "a", "y", "o", "u", "t">>, category |-> "Income: Freelance"],
      [keyword |-> <<"r", "e", "c", "e", "i", "v", "e", "d">>, category |-> "Income: Other"],
      [keyword |-> <<"r", "e", "f", "u", "n", "d">>, category |-> "Income: Refund"],
      [keyword |-> <<"c", "a", "s", "h", "b", "a", "c", "k">>, category |-> "Income: Cashback"],
      [keyword |-> <<"z", "o", "m", "a", "t", "o">>, category |-> "Expense: Food & Dining"],
      [keyword |-> <<"s", "w", "i", "g", "g", "y">>, category |-> "Expense: Food & Dining"],
      [keyword |-> <<"d", "o", "m", "i", "n", "o", "s">>, category |-> "Expense: Food & Dining"],
      [keyword |-> <<"k", "f", "c">>, category |-> "Expense: Food & Dining"],
      [keyword |-> <<"r", "e", "s", "t", "a", "u", "r", "a", "n", "t">>, category |-> "Expense: Food & Dining"],
      [keyword |-> <<"h", "o", "t", "e", "l">>, category |-> "Expense: Food & Dining"],
      [keyword |-> <<"f", "o", "o", "d">>, category |-> "Expense: Food & Dining"],
      [keyword |-> <<"d", "i", "n", "i", "n", "g">>, category |-> "Expense: Food & Dining"],
      [keyword |-> <<"u", "b", "e", "r">>, category |-> "Expense: Travel"],
      [keyword |-> <<"o", "l", "a">>, category |-> "Expense: Travel"],
      [keyword |-> <<"r", "a", "p", "i", "d", "o">>, category |-> "Expense: Travel"],
      [keyword |-> <<"i", "r", "c", "t", "c">>, category |-> "Expense: Travel"],
      [keyword |-> <<"m", "e", "t", "r", "o">>, category |-> "Expense: Travel"],
      [keyword |-> <<"t", "r", "a", "i", "n">>, category |-> "Expense: Travel"],
      [keyword |-> <<"f", "l", "i", "g", "h", "t">>, category |-> "Expense: Travel"],
      [keyword |-> <<"p", "e", "t", "r", "o", "l">>, category |-> "Expense: Fuel"],
      [keyword |-> <<"d", "i", "e", "s", "e", "l">>, category |-> "Expense: Fuel"],
      [keyword |-> <<"f", "u", "e", "l">>, category |-> "Expense: Fuel"],
      [keyword |-> <<"a", "m", "a", "z", "o", "n">>, category |-> "Expense: Shopping"],
      [keyword |-> <<"f", "l", "i", "p", "k", "a", "r", "t">>, category |-> "Expense: Shopping"],
      [keyword |-> <<"m", "y", "n", "t", "r", "a">>, category |-> "Expense: Shopping"],
      [keyword |-> <<"a", "j", "i", "o">>, category |-> "Expense: Shopping"],
      [keyword |-> <<"b", "i", "g", "b", "a", "s", "k", "e", "t">>, category |-> "Expense: Groceries"],
      [keyword |-> <<"d", "m", "a", "r", "t">>, category |-> "Expense: Groceries"],
      [keyword |-> <<"k", "i", "r", "a", "n", "a">>, category |-> "Expense: Groceries"],
      [keyword |-> <<"g", "r", "o", "c", "e", "r", "y">>, category |-> "Expense: Groceries"],
      [keyword |-> <<"a", "i", "r", "t", "e", "l">>, category |-> "Expense: Utility"],
      [keyword |-> <<"j", "i", "o">>, category |-> "Expense: Utility"],
      [keyword |-> <<"v", "o", "d", "a", "f", "o", "n", "e">>, category |-> "Expense: Utility"],
      [keyword |-> <<"v", "i">>, category |-> "Expense: Utility"],
      [keyword |-> <<"e", "l", "e", "c", "t", "r", "i", "c", "i", "t", "y">>, category |-> "Expense: Utility"],
      [keyword |-> <<"w", "a", "t", "e", "r">>, category |-> "Expense: Utility"],
      [keyword |-> <<"g", "a", "s">>, category |-> "Expense: Utility"],
      [keyword |-> <<"g", "a", "s", " ", "b", "i", "l", "l">>, category |-> "Expense: Utility"],
      [keyword |-> <<"w", "a", "t", "e", "r", " ", "b", "i", "l", "l">>, category |-> "Expense: Utility"],
      [keyword |-> <<"m", "o", "b", "i", "l", "e", " ", "r", "e", "c", "h", "a", "r", "g", "e">>, category |-> "Expense: Utility"],
      [keyword |-> <<"r", "e", "c", "h", "a", "r", "g", "e">>, category |-> "Expense: Utility"],
      [keyword |-> <<"r", "e", "n", "t">>, category |-> "Expense: Housing"],
      [keyword |-> <<"m", "a", "i", "n", "t", "e", "n", "a", "n", "c", "e">>, category |-> "Expense: Housing"],
      [keyword |-> <<"s", "o", "c", "i", "e", "t", "y">>, category |-> "Expense: Housing"],
      [keyword |-> <<"e", "m", "i">>, category |-> "Expense: Loan EMI"],
      [keyword |-> <<"i", "n", "s", "t", "a", "l", "l", "m", "e", "n", "t">>, category |-> "Expense: Loan EMI"],
      [keyword |-> <<"l", "o", "a", "n">>, category |-> "Expense: Loan EMI"],
      [keyword |-> <<"c", "r", "e", "d", "i", "t", " ", "c", "a", "r", "d">>, category |-> "Expense: Credit Card Payment"],
      [keyword |-> <<"h", "o", "s", "p", "i", "t", "a", "l">>, category |-> "Expense: Healthcare"],
      [keyword |-> <<"d", "o", "c", "t", "o", "r">>, category |-> "Expense: Healthcare"],
      [keyword |-> <<"m", "e", "d", "i", "c", "a", "l">>, category |-> "Expense: Healthcare"],
      [keyword |-> <<"p", "h", "a", "r", "m", "a", "c", "y">>, category |-> "Expense: Healthcare"],
      [keyword |-> <<"a", "p", "o", "l", "l", "o">>, category |-> "Expense: Healthcare"],
      [keyword |-> <<"n", "e", "t", "f", "l", "i", "x">>, category |-> "Expense: Entertainment"],
      [keyword |-> <<"p", "r", "i", "m", "e", " ", "v", "i", "d", "e", "o">>, category |-> "Expense: Entertainment"],
      [keyword |-> <<"a", "m", "a", "z", "o", "n", " ", "p", "r", "i", "m", "e">>, category |-> "Expense: Entertainment"],
      [keyword |-> <<"h", "o", "t", "s", "t", "a", "r">>, category |-> "Expense: Entertainment"],
      [keyword |-> <<"d", "i", "s", "n", "e", "y">>, category |-> "Expense: Entertainment"],
      [keyword |-> <<"s", "p", "o", "t", "i", "f", "y">>, category |-> "Expense: Entertainment"],
      [keyword |-> <<"m", "o", "v", "i", "e">>, category |-> "Expense: Entertainment"],
      [keyword |-> <<"m", "u", "t", "u", "a", "l", " ", "f", "u", "n", "d">>, category |-> "Expense: Investment"],
      [keyword |-> <<"s", "t", "o", "c", "k">>, category |-> "Expense: Investment"],
      [keyword |-> <<"z", "e", "r", "o", "d", "h", "a">>, category |-> "Expense: Investment"],
      [keyword |-> <<"g", "r", "o", "w", "w">>, category |-> "Expense: Investment"],
      [keyword |-> <<"d", "e", "f", "a", "u", "l", "t">>, category |-> "Expense: Other"]>>

(***************************************************************************)
(* backend/parsers/sms_parser.py                                           *)
(***************************************************************************)
NoMatch == [found |-> FALSE, g |-> <<>>]

\* AMOUNT_PATTERNS[0..4]: a literal, an optional point (rs\.?), a run of
\* separators (\s* or [:\s]*), then the group ([\d,]+\.?\d*)
AMOUNT_PREFIXES ==
    << [lit |-> <<"i", "n", "r">>,    optdot |-> FALSE, sep |-> Whitespace],
       [lit |-> <<"r", "s">>,     optdot |-> TRUE,  sep |-> Whitespace],
       [lit |-> <<Rupee>>, optdot |-> FALSE, sep |-> Whitespace],
       [lit |-> <<"a", "m", "o", "u", "n", "t">>, optdot |-> FALSE, sep |-> Whitespace],
       [lit |-> <<"a", "m", "t">>,    optdot |-> FALSE, sep |-> Whitespace \cup {":"}] >>

\* the number of AMOUNT_PATTERNS
NumAmountPatterns == Len(AMOUNT_PREFIXES) + 1

\* the group ([\d,]+\.?\d*) matched greedily from index k
AmountGroupEnd(s, k) ==
    LET e1 == RunEnd(s, k, Digits \cup {","})
        e2 == IF e1 + 1 <= Len(s) /\ s[e1 + 1] = "." THEN e1 + 1 ELSE e1
    IN  RunEnd(s, e2 + 1, Digits)

\* where the group starts when pattern p matches at index i (0: no match)
AmountPrefixAt(p, s, i) ==
    IF ~MatchAt(p.lit, s, i) THEN 0
    ELSE LET j == i + Len(p.lit)
             d == IF p.optdot /\ j <= Len(s) /\ s[j] = "." THEN j + 1 ELSE j
             k == RunEnd(s, d, p.sep) + 1
         IN  IF k <= Len(s) /\ s[k] \in Digits \cup {","} THEN k ELSE 0

\* AMOUNT_PATTERNS[5], ([\d,]+\.\d{2}), at index i: the end of the match
\* (0: no match)
DecimalAt(s, i) ==
    IF i > Len(s) \/ s[i] \notin Digits \cup {","} THEN 0
    ELSE LET e == RunEnd(s, i, Digits \cup {","})
         IN  IF /\ e + 3 <= Len(s)
                /\ s[e + 1] = "."
                /\ s[e + 2] \in Digits
                /\ s[e + 3] \in Digits
             THEN e + 3 ELSE 0

\* re.search(AMOUNT_PATTERNS[n - 1], s): the leftmost match's group(1)
amount_search(n, s) ==
    IF n <= Len(AMOUNT_PREFIXES)
    THEN LET p    == AMOUNT_PREFIXES[n]
             hits == {i \in 1..Len(s) : AmountPrefixAt(p, s, i) # 0}
         IN  IF hits = {} THEN NoMatch
             ELSE LET k == AmountPrefixAt(p, s, Min(hits))
                  IN  [found |-> TRUE, g |-> SubSeq(s, k, AmountGroupEnd(s, k))]
    ELSE LET hits == {i \in 1..Len(s) : DecimalAt(s, i) # 0}
         IN  IF hits = {} THEN NoMatch
             ELSE [found |-> TRUE,
                   g |-> SubSeq(s, Min(hits), DecimalAt(s, Min(hits)))]

\* the loop over AMOUNT_PATTERNS from pattern n on: the first pattern that
\* matches and whose group float() accepts sets the amount and breaks
RECURSIVE amount_loop(_, _)
\* try: amount = float(m.group(1).replace(",", "")); break / except: continue
amount_try(s, n, f) == IF f.ok THEN f.v ELSE amount_loop(s, n + 1)

\* if m:
amount_match(s, n, m) ==
    IF m.found THEN amount_try(s, n, float(remove_char(m.g, ",")))
    ELSE amount_loop(s, n + 1)

amount_loop(s, n) ==
    IF n > NumAmountPatterns THEN 0
    ELSE amount_match(s, n, amount_search(n, s))

\* re.search(r'\b(\d{3,7})\b', s): a whole run of 3 to 7 digits with no word
\* character on either side
bare_number(s) ==
    LET hits == {i \in 1..Len(s) :
                    /\ s[i] \in Digits
                    /\ (i = 1 \/ s[i - 1] \notin WordChars)
                    /\ LET e == RunEnd(s, i, Digits)
                       IN  /\ e - i + 1 >= 3
                           /\ e - i + 1 <= 7
                           /\ (e = Len(s) \/ s[e + 1] \notin WordChars)}
    IN  IF hits = {} THEN NoMatch
        ELSE [found |-> TRUE,
              g |-> SubSeq(s, Min(hits), RunEnd(s, Min(hits), Digits))]

\* the amount of parse_sms, in hundredths
amount_fallback(amount, m) ==
    IF amount = 0 /\ m.found THEN float(m.g).v ELSE amount

extract_amount(text_low) ==
    amount_fallback(amount_loop(text_low, 1), bare_number(text_low))

\* [A-Za-z0-9 .&_\-] and, for `via`, [A-Za-z0-9@ .&_\-]
CpClass == Letters \cup Digits \cup {" ", ".", "&", "_", "-"}

COUNTERPARTY_PATTERNS ==
    << [lits |-> <<<<"f", "r", "o", "m">>>>,            sep |-> Whitespace, cls |-> CpClass],
       [lits |-> <<<<"t", "o">>>>,              sep |-> Whitespace, cls |-> CpClass],
       [lits |-> <<<<"v", "i", "a">>>>,             sep |-> Whitespace, cls |-> CpClass \cup {"@"}],
       [lits |-> <<<<"a", "t">>>>,              sep |-> Whitespace, cls |-> CpClass],
       [lits |-> <<<<"m", "e", "r", "c", "h", "a", "n", "t">>>>,        sep |-> Whitespace \cup {":"}, cls |-> CpClass],
       [lits |-> <<<<"s", "e", "n", "t">>, <<"t", "o">>>>,     sep |-> Whitespace, cls |-> CpClass],
       [lits |-> <<<<"r", "e", "c", "e", "i", "v", "e", "d">>, <<"f", "r", "o", "m">>>>, sep |-> Whitespace, cls |-> CpClass] >>

\* literal n of pattern p matched at index i, followed by one or more
\* separators: where the group starts (0: no match).  After the last literal
\* the separators are given back one by one until a group character follows.
RECURSIVE CpGroupStart(_, _, _, _)
CpGroupStart(p, s, i, n) ==
    IF ~MatchAt(p.lits[n], s, i) THEN 0
    ELSE LET j == i + Len(p.lits[n])
             r == RunEnd(s, j, p.sep)
         IN  IF r < j THEN 0
             ELSE IF n < Len(p.lits) THEN CpGroupStart(p, s, r + 1, n + 1)
             ELSE LET starts == {q \in (j + 1)..(r + 1) :
                                    q <= Len(s) /\ s[q] \in p.cls}
                  IN  IF starts = {} THEN 0 ELSE Max(starts)

\* re.search(COUNTERPARTY_PATTERNS[n - 1], s): the leftmost match's group(1)
counterparty_search(n, s) ==
    LET p    == COUNTERPARTY_PATTERNS[n]
        hits == {i \in 1..Len(s) : CpGroupStart(p, s, i, 1) # 0}
    IN  IF hits = {} THEN NoMatch
        ELSE LET q == CpGroupStart(p, s, Min(hits), 1)
             IN  [found |-> TRUE, g |-> SubSeq(s, q, RunEnd(s, q, p.cls))]

noise == {<<"u", "p", "i">>, <<"r", "e", "f">>, <<"t", "x", "n">>, <<"i", "d">>, <<"n", "o">>, <<"b", "a", "n", "k">>}

clean_counterparty(cp0) ==
    LET cp       == strip(cp0)
        parts    == split(cp)
        filtered == SelectSeq(parts, LAMBDA w : lower(w) \notin noise)
        cp_clean == join(filtered)
    IN  title(IF cp_clean = <<>> THEN cp ELSE cp_clean)

\* the loop over COUNTERPARTY_PATTERNS from pattern n on: the first match
\* whose cleaned capture is longer than one character is used
RECURSIVE counterparty_loop(_, _)
\* if len(cp) > 1: counterparty = cp; break
counterparty_take(s, n, cp) ==
    IF Len(cp) > 1 THEN cp ELSE counterparty_loop(s, n + 1)

\* if m:
counterparty_match(s, n, m) ==
    IF m.found THEN counterparty_take(s, n, clean_counterparty(m.g))
    ELSE counterparty_loop(s, n + 1)

counterparty_loop(s, n) ==
    IF n > Len(COUNTERPARTY_PATTERNS) THEN <<"U", "n", "k", "n", "o", "w", "n">>
    ELSE counterparty_match(s, n, counterparty_search(n, s))

extract_counterparty(text_low) == counterparty_loop(text_low, 1)

\* the transaction type of parse_sms
detect_txn_type(text_low) ==
    IF \E k \in {<<"c", "r", "e", "d", "i", "t", "e", "d">>, <<" ", "c", "r", "e", "d", "i", "t", " ">>, <<" ", "c", "r", " ">>, <<"r", "e", "c", "e", "i", "v", "e", "d">>} :
           contains(k, text_low)
    THEN "Credited"
    ELSE IF \E k \in {<<"d", "e", "b", "i", "t", "e", "d">>, <<" ", "d", "e", "b", "i", "t", " ">>, <<" ", "d", "r", " ">>, <<"s", "p", "e", "n", "t">>, <<"p", "a", "i", "d">>} :
                contains(k, text_low)
    THEN "Debited"
    ELSE "Unknown"

\* sms_parser.categorize_transaction: the first keyword of CATEGORY_RULES
\* that is a substring of the text, else a default by transaction type
RECURSIVE rules_loop(_, _)
rules_loop(text_low, n) ==
    IF n > Len(CATEGORY_RULES) THEN "none"
    ELSE IF contains(CATEGORY_RULES[n].keyword, text_low)
    THEN CATEGORY_RULES[n].category
    ELSE rules_loop(text_low, n + 1)

parser_categorize_transaction(text_low, txn_type) ==
    LET hit == rules_loop(text_low, 1)
    IN  IF hit # "none" THEN hit
        ELSE IF txn_type = "Credited" THEN "Income: Other"
        ELSE IF txn_type = "Debited" THEN "Expense: Other"
        ELSE "Unknown"

\* re.search(r'(\d{1,2}[-/]\d{1,2}[-/]\d{2,4})', s) at index i: the three
\* digit groups and the two separators (found = FALSE: no match at i)
DateAt(s, i) ==
    LET D(k)  == k <= Len(s) /\ s[k] \in Digits
        P(k)  == k <= Len(s) /\ s[k] \in {"-", "/"}
        a     == IF D(i) /\ D(i + 1) /\ P(i + 2) THEN 2 ELSE 1
        j     == i + a + 1
        b     == IF D(j) /\ D(j + 1) /\ P(j + 2) THEN 2 ELSE 1
        k     == j + b + 1
        e     == Min({RunEnd(s, k, Digits), k + 3})
    IN  IF D(i) /\ P(i + a) /\ D(j) /\ P(j + b) /\ e >= k + 1
        THEN [found |-> TRUE,
              day |-> SubSeq(s, i, i + a - 1), sep1 |-> s[i + a],
              month |-> SubSeq(s, j, j + b - 1), sep2 |-> s[j + b],
              year |-> SubSeq(s, k, e)]
        ELSE [found |-> FALSE]

DaysInMonth(y, m) ==
    IF m = 2
    THEN IF (y % 4 = 0 /\ y % 100 # 0) \/ y % 400 = 0 THEN 29 ELSE 28
    ELSE IF m \in {4, 6, 9, 11} THEN 30 ELSE 31

\* datetime.strptime(raw, fmt) over the four formats "%d-%m-%Y", "%d/%m/%Y",
\* "%d-%m-%y", "%d/%m/%y": one of them accepts raw when both separators are
\* the same, the year has four digits (%Y) or two (%y: 69..99 are 19xx, the
\* rest 20xx) and the day exists; otherwise the for-else takes datetime.now()
strptime(m) ==
    LET d  == ParseNat(m.day)
        mo == ParseNat(m.month)
        y2 == ParseNat(m.year)
        y  == IF Len(m.year) = 2
              THEN (IF y2 >= 69 THEN 1900 + y2 ELSE 2000 + y2)
              ELSE y2
    IN  IF /\ m.sep1 = m.sep2
           /\ Len(m.year) \in {2, 4}
           /\ y >= 1
           /\ mo \in 1..12
           /\ d >= 1
           /\ d <= DaysInMonth(y, mo)
        THEN [src |-> "text", year |-> y, month |-> mo, day |-> d]
        ELSE [src |-> "now"]

\* the date of parse_sms: the leftmost match of the date pattern, parsed
txn_date(text_low) ==
    IF \A i \in 1..Len(text_low) : ~DateAt(text_low, i).found
    THEN [src |-> "now"]
    ELSE strptime(DateAt(text_low,
                         Min({i \in 1..Len(text_low) : DateAt(text_low, i).found})))

\* parse_sms(text) for a str
parse_str(s) ==
    LET text_low == strip(lower(s))
        txn_type == detect_txn_type(text_low)
    IN  [txn_type     |-> txn_type,
         amount       |-> JNum(extract_amount(text_low)),
         counterparty |-> JStr(extract_counterparty(text_low)),
         message      |-> JStr(s),
         category     |-> parser_categorize_transaction(text_low, txn_type),
         date         |-> txn_date(text_low)]

\* parse_str of every text of the model (TEXT_POOL), evaluated once
PARSED == [s \in TEXT_POOL |-> parse_str(s)]

\* parse_sms(text).  text.lower() raises AttributeError when text is no str.
parse_sms(text) ==
    IF text.t # "str" THEN Raise ELSE Ret(PARSED[text.s])

(***************************************************************************)
(* backend/services/ai_agents/categorization_agent.py                      *)
(***************************************************************************)
\* self.category_map, in insertion order: \bw\b, or \bw(opt)?\b
category_map ==
    <<[w |-> <<"s", "a", "l", "a", "r", "y">>, opt |-> <<>>, category |-> "Income"],
      [w |-> <<"c", "r", "e", "d", "i", "t", "e", "d">>, opt |-> <<>>, category |-> "Income"],
      [w |-> <<"r", "e", "c", "e", "i", "v", "e">>, opt |-> <<"d">>, category |-> "Income"],
      [w |-> <<"d", "e", "p", "o", "s", "i", "t">>, opt |-> <<>>, category |-> "Income"],
      [w |-> <<"r", "e", "f", "u", "n", "d">>, opt |-> <<>>, category |-> "Refund"],
      [w |-> <<"c", "a", "s", "h", "b", "a", "c", "k">>, opt |-> <<>>, category |-> "Refund"],
      [w |-> <<"r", "e", "w", "a", "r", "d">>, opt |-> <<>>, category |-> "Refund"],
      [w |-> <<"f", "o", "o", "d">>, opt |-> <<>>, category |-> "Food & Dining"],
      [w |-> <<"r", "e", "s", "t", "a", "u", "r", "a", "n", "t">>, opt |-> <<>>, category |-> "Food & Dining"],
      [w |-> <<"d", "i", "n", "i", "n", "g">>, opt |-> <<>>, category |-> "Food & Dining"],
      [w |-> <<"z", "o", "m", "a", "t", "o">>, opt |-> <<>>, category |-> "Food & Dining"],
      [w |-> <<"s", "w", "i", "g", "g", "y">>, opt |-> <<>>, category |-> "Food & Dining"],
      [w |-> <<"k", "h", "a", "n", "a">>, opt |-> <<>>, category |-> "Food & Dining"],
      [w |-> <<"s", "h", "o", "p", "p", "i", "n", "g">>, opt |-> <<>>, category |-> "Shopping"],
      [w |-> <<"a", "m", "a", "z", "o", "n">>, opt |-> <<>>, category |-> "Shopping"],
      [w |-> <<"f", "l", "i", "p", "k", "a", "r", "t">>, opt |-> <<>>, category |-> "Shopping"],
      [w |-> <<"m", "y", "n", "t", "r", "a">>, opt |-> <<>>, category |-> "Shopping"],
      [w |-> <<"k", "i", "r", "a", "n", "a">>, opt |-> <<>>, category |-> "Groceries"],
      [w |-> <<"g", "r", "o", "c", "e", "r", "y">>, opt |-> <<>>, category |-> "Groceries"],
      [w |-> <<"m", "i", "l", "k">>, opt |-> <<>>, category |-> "Groceries"],
      [w |-> <<"p", "e", "t", "r", "o", "l">>, opt |-> <<>>, category |-> "Travel"],
      [w |-> <<"f", "u", "e", "l">>, opt |-> <<>>, category |-> "Travel"],
      [w |-> <<"d", "i", "e", "s", "e", "l">>, opt |-> <<>>, category |-> "Travel"],
      [w |-> <<"u", "b", "e", "r">>, opt |-> <<>>, category |-> "Travel"],
      [w |-> <<"o", "l", "a">>, opt |-> <<>>, category |-> "Travel"],
      [w |-> <<"b", "u", "s">>, opt |-> <<>>, category |-> "Travel"],
      [w |-> <<"t", "r", "a", "i", "n">>, opt |-> <<>>, category |-> "Travel"],
      [w |-> <<"f", "l", "i", "g", "h", "t">>, opt |-> <<>>, category |-> "Travel"],
      [w |-> <<"b", "i", "l", "l">>, opt |-> <<>>, category |-> "Utilities"],
      [w |-> <<"e", "l", "e", "c", "t", "r", "i", "c", "i", "t", "y">>, opt |-> <<>>, category |-> "Utilities"],
      [w |-> <<"w", "a", "t", "e", "r">>, opt |-> <<>>, category |-> "Utilities"],
      [w |-> <<"i", "n", "t", "e", "r", "n", "e", "t">>, opt |-> <<>>, category |-> "Utilities"],
      [w |-> <<"m", "o", "b", "i", "l", "e">>, opt |-> <<>>, category |-> "Utilities"],
      [w |-> <<"r", "e", "c", "h", "a", "r", "g", "e">>, opt |-> <<>>, category |-> "Utilities"],
      [w |-> <<"r", "e", "n", "t">>, opt |-> <<>>, category |-> "Housing"],
      [w |-> <<"m", "a", "i", "n", "t", "e", "n", "a", "n", "c", "e">>, opt |-> <<>>, category |-> "Housing"],
      [w |-> <<"e", "m", "i">>, opt |-> <<>>, category |-> "Loan / EMI"],
      [w |-> <<"l", "o", "a", "n">>, opt |-> <<>>, category |-> "Loan / EMI"],
      [w |-> <<"i", "n", "s", "t", "a", "l", "l", "m", "e", "n", "t">>, opt |-> <<>>, category |-> "Loan / EMI"],
      [w |-> <<"m", "e", "d", "i", "c", "a", "l">>, opt |-> <<>>, category |-> "Healthcare"],
      [w |-> <<"h", "o", "s", "p", "i", "t", "a", "l">>, opt |-> <<>>, category |-> "Healthcare"],
      [w |-> <<"d", "o", "c", "t", "o", "r">>, opt |-> <<>>, category |-> "Healthcare"],
      [w |-> <<"m", "e", "d", "i", "c", "i", "n", "e">>, opt |-> <<>>, category |-> "Healthcare"],
      [w |-> <<"m", "o", "v", "i", "e">>, opt |-> <<>>, category |-> "Entertainment"],
      [w |-> <<"n", "e", "t", "f", "l", "i", "x">>, opt |-> <<>>, category |-> "Entertainment"],
      [w |-> <<"p", "r", "i", "m", "e">>, opt |-> <<>>, category |-> "Entertainment"],
      [w |-> <<"h", "o", "t", "s", "t", "a", "r">>, opt |-> <<>>, category |-> "Entertainment"],
      [w |-> <<"i", "n", "v", "e", "s", "t">>, opt |-> <<"m", "e", "n", "t">>, category |-> "Investment"],
      [w |-> <<"m", "u", "t", "u", "a", "l", " ", "f", "u", "n", "d">>, opt |-> <<>>, category |-> "Investment"],
      [w |-> <<"s", "t", "o", "c", "k">>, opt |-> <<>>, category |-> "Investment"],
      [w |-> <<"s", "i", "p">>, opt |-> <<>>, category |-> "Investment"],
      [w |-> <<"i", "n", "s", "u", "r", "a", "n", "c", "e">>, opt |-> <<>>, category |-> "Insurance"],
      [w |-> <<"p", "r", "e", "m", "i", "u", "m">>, opt |-> <<>>, category |-> "Insurance"]>>

\* \b at the gap before index i
WordBoundary(s, i) ==
    LET before == i > 1 /\ s[i - 1] \in WordChars
        after  == i <= Len(s) /\ s[i] \in WordChars
    IN  before # after

\* re.search(r'\bw(opt)?\b', t)
word_search(e, t) ==
    \E i \in 1..Len(t) :
        /\ WordBoundary(t, i)
        /\ MatchAt(e.w, t, i)
        /\ \/ WordBoundary(t, i + Len(e.w))
           \/ /\ e.opt # <<>>
              /\ MatchAt(e.opt, t, i + Len(e.w))
              /\ WordBoundary(t, i + Len(e.w) + Len(e.opt))

RECURSIVE category_map_loop(_, _)
category_map_loop(t, n) ==
    IF n > Len(category_map) THEN "none"
    ELSE IF word_search(category_map[n], t) THEN category_map[n].category
    ELSE category_map_loop(t, n + 1)

\* a faulty variant of keyword_category: the keyword that comes first in the
\* text decides, not the one that comes first in category_map
keyword_category_leftmost(s) ==
    LET t      == lower(s)
        pos(n) == Min({i \in 1..Len(t) :
                          /\ WordBoundary(t, i)
                          /\ MatchAt(category_map[n].w, t, i)
                          /\ WordBoundary(t, i + Len(category_map[n].w))}
                      \cup {Len(t) + 1})
        first  == CHOOSE n \in 1..Len(category_map) :
                      \A k \in 1..Len(category_map) : pos(n) <= pos(k)
    IN  IF pos(first) > Len(t) THEN "none" ELSE category_map[first].category

\* the keyword step of categorize_transaction for a str
keyword_category(s) == category_map_loop(lower(s), 1)

\* keyword_category of every text of the model (TEXT_POOL), evaluated once
KEYWORD_CATEGORY == [s \in TEXT_POOL |-> keyword_category(s)]

\* a faulty variant of categorize_transaction: an amount on a threshold
\* falls into the tier below
categorize_transaction_exclusive(text, amount) ==
    IF text.t # "str" THEN "Uncategorized"
    ELSE IF KEYWORD_CATEGORY[text.s] # "none" THEN KEYWORD_CATEGORY[text.s]
    ELSE IF amount.t # "num" THEN "Uncategorized"
    ELSE IF amount.n > 2500000 THEN "High-Value Expense"
    ELSE IF amount.n > 1000000 THEN "Large Expense"
    ELSE IF amount.n > 300000 THEN "General Expense"
    ELSE "Uncategorized"

\* CategorizationAgent.categorize_transaction(text, amount).  An exception
\* inside (text is no str; amount is no number and no keyword matched) is
\* caught and gives "Uncategorized".
categorize_transaction(text, amount) ==
    IF text.t # "str" THEN "Uncategorized"
    ELSE IF KEYWORD_CATEGORY[text.s] # "none" THEN KEYWORD_CATEGORY[text.s]
    ELSE IF amount.t # "num" THEN "Uncategorized"
    ELSE IF amount.n >= 2500000 THEN "High-Value Expense"
    ELSE IF amount.n >= 1000000 THEN "Large Expense"
    ELSE IF amount.n >= 300000 THEN "General Expense"
    ELSE "Uncategorized"

(***************************************************************************)
(* backend/parsers/bank_email_parser.py: the category of an e-mail         *)
(***************************************************************************)
\* CATEGORY_KEYWORDS, in insertion order
CATEGORY_KEYWORDS ==
    << [cat |-> "Salary",        keys |-> <<<<"s", "a", "l", "a", "r", "y">>, <<"p", "a", "y", "o", "u", "t">>, <<"c", "r", "e", "d", "i", "t", "e", "d">>, <<"i", "n", "c", "o", "m", "e">>>>],
       [cat |-> "Shopping",      keys |-> <<<<"a", "m", "a", "z", "o", "n">>, <<"f", "l", "i", "p", "k", "a", "r", "t">>, <<"m", "y", "n", "t", "r", "a">>, <<"o", "r", "d", "e", "r">>>>],
       [cat |-> "Food & Dining", keys |-> <<<<"z", "o", "m", "a", "t", "o">>, <<"s", "w", "i", "g", "g", "y">>, <<"r", "e", "s", "t", "a", "u", "r", "a", "n", "t">>>>],
       [cat |-> "Travel",        keys |-> <<<<"u", "b", "e", "r">>, <<"o", "l", "a">>, <<"r", "i", "d", "e">>>>],
       [cat |-> "Utilities",     keys |-> <<<<"b", "i", "l", "l">>, <<"r", "e", "c", "h", "a", "r", "g", "e">>, <<"e", "l", "e", "c", "t", "r", "i", "c", "i", "t", "y">>, <<"w", "a", "t", "e", "r">>, <<"d", "t", "h">>>>],
       [cat |-> "Medical",       keys |-> <<<<"p", "h", "a", "r", "m", "a", "c", "y">>, <<"m", "e", "d", "i", "c", "a", "l">>, <<"c", "h", "e", "m", "i", "s", "t">>>>],
       [cat |-> "Refund",        keys |-> <<<<"r", "e", "f", "u", "n", "d">>, <<"r", "e", "v", "e", "r", "s", "e", "d">>, <<"r", "e", "v", "e", "r", "s", "a", "l">>>>] >>

\* detect_category(text_low), its loop from the n-th entry on
RECURSIVE detect_category_from(_, _)
detect_category_from(text_low, n) ==
    IF n > Len(CATEGORY_KEYWORDS) THEN "Other"
    ELSE IF \E k \in 1..Len(CATEGORY_KEYWORDS[n].keys) :
               contains(CATEGORY_KEYWORDS[n].keys[k], text_low)
    THEN CATEGORY_KEYWORDS[n].cat
    ELSE detect_category_from(text_low, n + 1)

detect_category(text_low) == detect_category_from(text_low, 1)

(***************************************************************************)
(* backend/parsers/pdf_statement_parser.py                                 *)
(***************************************************************************)
\* the month names %B and %b accept, in lower case (%b: the first three
\* letters)
MONTH_NAMES ==
    << <<"j", "a", "n", "u", "a", "r", "y">>, <<"f", "e", "b", "r", "u", "a", "r", "y">>, <<"m", "a", "r", "c", "h">>, <<"a", "p", "r", "i", "l">>, <<"m", "a", "y">>, <<"j", "u", "n", "e">>, <<"j", "u", "l", "y">>,
       <<"a", "u", "g", "u", "s", "t">>, <<"s", "e", "p", "t", "e", "m", "b", "e", "r">>, <<"o", "c", "t", "o", "b", "e", "r">>, <<"n", "o", "v", "e", "m", "b", "e", "r">>, <<"d", "e", "c", "e", "m", "b", "e", "r">> >>

\* the date of a line (lines 41-56): for each of DATE_PATTERNS in turn, the
\* leftmost match is handed to strptime under the seven formats.  A match of
\* the first pattern can only be parsed by the four formats of strptime(m)
\* (txn_date), one of the second only by "%Y-%m-%d", one of the third only
\* by "%d %B %Y" and "%d %b %Y".  src = "none": date_found stays None.
pdf_date(s) ==
    LET D(k) == k >= 1 /\ k <= Len(s) /\ s[k] \in Digits
        P(k) == k >= 1 /\ k <= Len(s) /\ s[k] \in {"-", "/"}
        W(k) == k >= 1 /\ k <= Len(s) /\ s[k] \in Whitespace
        Valid(y, mo, d) ==
            IF y >= 1 /\ mo \in 1..12 /\ d >= 1 /\ d <= DaysInMonth(y, mo)
            THEN [src |-> "text", year |-> y, month |-> mo, day |-> d]
            ELSE [src |-> "none"]
        \* (\d{4}[/-]\d{1,2}[/-]\d{1,2}) at index i
        IsoAt(i) ==
            LET j == i + 5
                b == IF D(j) /\ D(j + 1) /\ P(j + 2) THEN 2 ELSE 1
                k == j + b + 1
                c == IF D(k) /\ D(k + 1) THEN 2 ELSE 1
            IN  IF /\ \A x \in i..(i + 3) : D(x)
                   /\ P(i + 4) /\ D(j) /\ P(j + b) /\ D(k)
                THEN [found |-> TRUE,
                      parsed |-> IF s[i + 4] = "-" /\ s[j + b] = "-"
                                 THEN Valid(ParseNat(SubSeq(s, i, i + 3)),
                                            ParseNat(SubSeq(s, j, j + b - 1)),
                                            ParseNat(SubSeq(s, k, k + c - 1)))
                                 ELSE [src |-> "none"]]
                ELSE [found |-> FALSE]
        \* (\d{1,2}\s+[A-Za-z]{3,9}\s+\d{2,4}) at index i
        NamedAt(i) ==
            LET a  == IF D(i) /\ D(i + 1) THEN 2 ELSE 1
                l  == RunEnd(s, i + a, Whitespace) + 1
                le == RunEnd(s, l, Letters)
                k  == RunEnd(s, le + 1, Whitespace) + 1
                e  == Min({RunEnd(s, k, Digits), k + 3})
                months == {n \in 1..12 :
                              SubSeq(s, l, le) \in {MONTH_NAMES[n],
                                                    SubSeq(MONTH_NAMES[n], 1, 3)}}
            IN  IF /\ D(i) /\ W(i + a)
                   /\ le - l + 1 \in 3..9
                   /\ W(le + 1)
                   /\ e >= k + 1
                THEN [found |-> TRUE,
                      parsed |-> IF e = k + 3 /\ months # {}
                                 THEN Valid(ParseNat(SubSeq(s, k, e)),
                                            Min(months \cup {13}),
                                            ParseNat(SubSeq(s, i, i + a - 1)))
                                 ELSE [src |-> "none"]]
                ELSE [found |-> FALSE]
        iso   == {i \in 1..Len(s) : IsoAt(i).found}
        named == {i \in 1..Len(s) : NamedAt(i).found}
    IN  IF txn_date(s).src = "text" THEN txn_date(s)
        ELSE IF iso # {} /\ IsoAt(Min(iso)).parsed.src = "text"
        THEN IsoAt(Min(iso)).parsed
        ELSE IF named # {} THEN NamedAt(Min(named)).parsed
        ELSE [src |-> "none"]

\* the amount of a line (lines 64-72), in hundredths: the leftmost match of
\* ([\d,]+\.\d{2}), else the leftmost match of ([\d,]+), with the commas
\* removed; 0 when there is no match or float() raises
pdf_amount(s) ==
    LET DC == Digits \cup {","}
        D(k) == k <= Len(s) /\ s[k] \in Digits
        decimal == {i \in 1..Len(s) :
                       /\ s[i] \in DC
                       /\ RunEnd(s, i, DC) < Len(s)
                       /\ s[RunEnd(s, i, DC) + 1] = "."
                       /\ D(RunEnd(s, i, DC) + 2)
                       /\ D(RunEnd(s, i, DC) + 3)}
        plain   == {i \in 1..Len(s) : s[i] \in DC}
        group   == IF decimal # {}
                   THEN SubSeq(s, Min(decimal), RunEnd(s, Min(decimal), DC) + 3)
                   ELSE IF plain # {}
                   THEN SubSeq(s, Min(plain), RunEnd(s, Min(plain), DC))
                   ELSE <<>>
        value   == float(remove_char(group, ","))
    IN  IF value.ok THEN value.v ELSE 0

\* what the loop of parse_pdf_statement does with one stripped line (lines
\* 35-109): nothing, or the draft it appends
pdf_draft(line) ==
    LET line_low == lower(line)
        merchants == << <<"u", "p", "i">>, <<"a", "m", "a", "z", "o", "n">>, <<"f", "l", "i", "p", "k", "a", "r", "t">>, <<"s", "w", "i", "g", "g", "y">>, <<"z", "o", "m", "a", "t", "o">>,
                        <<"p", "e", "t", "r", "o", "l">>, <<"s", "t", "o", "r", "e">>, <<"s", "h", "o", "p">>, <<"p", "a", "y", "t", "m">>, <<"o", "l", "a">>, <<"u", "b", "e", "r">> >>
        hits == {n \in 1..Len(merchants) : contains(merchants[n], line_low)}
        any(keys) == \E k \in keys : contains(k, line_low)
    IN  IF pdf_date(line_low).src # "text" \/ pdf_amount(line_low) <= 0
        THEN [emit |-> FALSE]
        ELSE [emit  |-> TRUE,
              draft |-> [txn_type |-> IF any({<<"c", "r", "e", "d", "i", "t">>, <<"c", "r">>, <<"d", "e", "p", "o", "s", "i", "t">>, <<"r", "e", "c", "e", "i", "v", "e", "d">>})
                                      THEN "Credited"
                                      ELSE IF any({<<"d", "e", "b", "i", "t">>, <<"d", "r">>, <<"w", "i", "t", "h", "d", "r", "a", "w", "a", "l">>,
                                                   <<"s", "p", "e", "n", "t">>, <<"p", "a", "i", "d">>})
                                      THEN "Debited"
                                      ELSE "Unknown",
                         amount       |-> JNum(pdf_amount(line_low)),
                         counterparty |-> IF hits = {} THEN JStr(<<"U", "n", "k", "n", "o", "w", "n">>)
                                          ELSE JStr(title(merchants[Min(hits)])),
                         date         |-> pdf_date(line_low),
                         message      |-> JStr(line),
                         category     |-> "Statement Entry"]]

\* the lines of the statements of the model, as they stand in the text
PDF_LINES ==
    { <<"1", "2", "/", "0", "3", "/", "2", "0", "2", "4", " ", "u", "p", "i", " ", "s", "w", "i", "g", "g", "y", " ", "4", "5", "0", ".", "0", "0", " ", "d", "r">>,
      <<"o", "p", "e", "n", "i", "n", "g", " ", "b", "a", "l", "a", "n", "c", "e", " ", "1", "0", ",", "0", "0", "0", ".", "0", "0">>,
      <<"1", "3", "/", "0", "3", "/", "2", "0", "2", "4", " ", "r", "e", "v", "e", "r", "s", "a", "l", " ", "0", ".", "0", "0">>,
      <<"3", "1", "/", "0", "2", "/", "2", "0", "2", "4", " ", "p", "a", "i", "d", " ", "2", "0", "0", ".", "0", "0">>,
      <<" ", "1", "4", " ", "m", "a", "r", " ", "2", "0", "2", "4", " ", "s", "a", "l", "a", "r", "y", " ", "c", "r", " ", "4", "5", ",", "0", "0", "0", ".", "0", "0", " ">>,
      <<"2", "0", "2", "4", "-", "1", "2", "-", "5", " ", "a", "m", "a", "z", "o", "n", " ", "1", ",", "2", "9", "9">>,
      <<" ", " ", " ">> }

\* pdf_draft of every line of the model, evaluated once
PDF_DRAFT == [line \in {strip(l) : l \in PDF_LINES} |-> pdf_draft(line)]

\* text.split("\n")
RECURSIVE split_lines(_)
split_lines(text) ==
    IF \A i \in 1..Len(text) : text[i] # "\n" THEN <<text>>
    ELSE LET n == Min({i \in 1..Len(text) : text[i] = "\n"})
         IN  <<SubSeq(text, 1, n - 1)>> \o split_lines(SubSeq(text, n + 1, Len(text)))

\* the number of lines of the longest statement of the model
MaxPdfLines == 2

\* the statements of at most n lines
RECURSIVE PdfTexts(_)
PdfTexts(n) ==
    IF n <= 1 THEN {<<>>} \cup PDF_LINES
    ELSE PdfTexts(n - 1)
         \cup {t \o <<"\n">> \o l : t \in PdfTexts(n - 1) \ {<<>>}, l \in PDF_LINES}

\* a faulty variant of parse_pdf_lines: a line is kept for its amount alone,
\* whether or not a date was found in it
parse_pdf_lines_undated(lines) ==
    LET kept == SelectSeq(lines, LAMBDA l : pdf_amount(lower(l)) > 0)
    IN  [total_extracted |-> Len(kept),
         transactions    |-> [i \in 1..Len(kept) |->
                                 [message |-> JStr(kept[i]),
                                  amount  |-> JNum(pdf_amount(lower(kept[i]))),
                                  date    |-> pdf_date(lower(kept[i]))]]]

\* parse_pdf_statement for the stripped non-empty lines of the text
parse_pdf_lines(lines) ==
    LET kept == SelectSeq(lines, LAMBDA l : PDF_DRAFT[l].emit)
    IN  [total_extracted |-> Len(kept),
         transactions    |-> [i \in 1..Len(kept) |-> PDF_DRAFT[kept[i]].draft]]

\* line 32: [l.strip() for l in text.split("\n") if l.strip()]
stripped_lines(text) ==
    SelectSeq([i \in 1..Len(split_lines(text)) |-> strip(split_lines(text)[i])],
              LAMBDA l : l # <<>>)

(***************************************************************************)
(* backend/parsers/voice_parser.py                                         *)
(***************************************************************************)
\* detect_txn_type(text_low)
voice_detect_txn_type(text_low) ==
    IF \E k \in {<<"s", "a", "l", "a", "r", "y">>, <<"i", "n", "c", "o", "m", "e">>, <<"c", "r", "e", "d", "i", "t", "e", "d">>, <<"p", "a", "i", "s", "a", " ", "a", "y", "a">>, <<"r", "e", "c", "e", "i", "v", "e", "d">>} :
          contains(k, text_low)
    THEN "Credited"
    ELSE "Debited"

(***************************************************************************)
(* backend/services/ai_agents/sms_agent.py                                 *)
(***************************************************************************)
\* self.providers, in insertion order (the order the for loop visits)
PROVIDER_ORDER == <<"groq", "openai", "gemini", "cohere">>

Providers == {PROVIDER_ORDER[k] : k \in 1..Len(PROVIDER_ORDER)}

\* required of _valid_json
REQUIRED_KEYS == {"txn_type", "amount", "counterparty", "category"}

\* What _call_provider returns.  Each _call_* catches every exception
\* (network error, timeout, missing field) and returns None; otherwise the
\* completion text comes back.  The text is a sequence of lexical pieces:
\*   "prose"    characters other than braces and code fences
\*   "fence_json", "fence"   the code-fence markers ```json and ```
\*   "{", "}"   braces
\*   "members"  well-formed "key": value pairs, those of obj
\*   "junk"     characters that are not well-formed JSON members
\* and obj gives the members' keys and values.
NoneRaw == [isnone |-> TRUE, toks |-> <<>>, obj |-> <<>>]

StrRaw(toks, obj) == [isnone |-> FALSE, toks |-> toks, obj |-> obj]

\* the truth value of a value of _call_provider (`if not raw`)
Truthy(raw) == ~raw.isnone /\ raw.toks # <<>>

\* str.find / str.rfind of a piece, 0 for -1
find(toks, c) ==
    LET at == {k \in 1..Len(toks) : toks[k] = c}
    IN  IF at = {} THEN 0 ELSE Min(at)

rfind(toks, c) ==
    LET at == {k \in 1..Len(toks) : toks[k] = c}
    IN  IF at = {} THEN 0 ELSE Max(at)

\* a faulty variant of clean_json: the text is cut at the first "}"
clean_json_first_close(raw) ==
    IF ~Truthy(raw) THEN <<>>
    ELSE LET cleaned == SelectSeq(raw.toks, LAMBDA c : c \notin {"fence_json", "fence"})
             start   == find(cleaned, "{")
             end     == find(cleaned, "}")
         IN  IF start # 0 /\ end # 0 THEN SubSeq(cleaned, start, end) ELSE <<>>

\* _clean_json(text): the pieces from the first "{" to the last "}" once
\* the code fences are removed; <<>> stands for both None and ""
clean_json(raw) ==
    IF ~Truthy(raw) THEN <<>>
    ELSE LET cleaned == SelectSeq(raw.toks, LAMBDA c : c \notin {"fence_json", "fence"})
             start   == find(cleaned, "{")
             end     == rfind(cleaned, "}")
         IN  IF start # 0 /\ end # 0 THEN SubSeq(cleaned, start, end) ELSE <<>>

\* json.loads(text) of a cleaned text: a dict when the text is one object
json_loads_object(cleaned, obj) ==
    IF cleaned = <<"{", "members", "}">> THEN Ret(obj)
    ELSE IF cleaned = <<"{", "}">> THEN Ret(<<>>)
    ELSE Raise

\* _valid_json(text)
valid_json(cleaned, obj) ==
    LET parsed == json_loads_object(cleaned, obj)
    IN  IF parsed.raised THEN FALSE
        ELSE \A k \in REQUIRED_KEYS : k \in DOMAIN parsed.val

\* the truth value of a JSON value (`data.get("counterparty") or "Unknown"`)
JTruthy(v) ==
    \/ v.t = "str" /\ v.s # <<>>
    \/ v.t = "num" /\ v.n # 0

\* the amount of _normalize_result: a str goes through float() with "," and
\* the rupee sign removed, 0 on ValueError; anything else is kept as it is
normalize_amount(amount) ==
    IF amount.t = "str"
    THEN LET f == float(remove_char(remove_char(amount.s, ","), Rupee))
         IN  IF f.ok THEN JNum(f.v) ELSE JNum(0)
    ELSE amount

\* a faulty variant of normalize_result: a category the provider sent as a
\* str is kept, and only a missing one is computed
normalize_result_trusting(data, sms_text) ==
    IF data.txn_type.t # "str" THEN Raise
    ELSE Ret([txn_type     |-> IF contains(<<"c", "r", "e", "d", "i", "t">>, lower(data.txn_type.s)) THEN "Credited"
                               ELSE IF contains(<<"d", "e", "b", "i", "t">>, lower(data.txn_type.s)) THEN "Debited"
                               ELSE "Unknown",
              amount       |-> normalize_amount(data.amount),
              counterparty |-> IF JTruthy(data.counterparty)
                               THEN data.counterparty
                               ELSE JStr(<<"U", "n", "k", "n", "o", "w", "n">>),
              category     |-> IF data.category.t = "str"
                               THEN "Provider Category"
                               ELSE categorize_transaction(sms_text,
                                        normalize_amount(data.amount))])

\* _normalize_result(data, sms_text); .lower() raises AttributeError when
\* the txn_type of the response is no str
normalize_result(data, sms_text) ==
    IF data.txn_type.t # "str" THEN Raise
    ELSE LET txn_low == lower(data.txn_type.s)
             amount  == normalize_amount(data.amount)
         IN  Ret([txn_type     |-> IF contains(<<"c", "r", "e", "d", "i", "t">>, txn_low) THEN "Credited"
                                   ELSE IF contains(<<"d", "e", "b", "i", "t">>, txn_low) THEN "Debited"
                                   ELSE "Unknown",
                  amount       |-> amount,
                  counterparty |-> IF JTruthy(data.counterparty)
                                   THEN data.counterparty
                                   ELSE JStr(<<"U", "n", "k", "n", "o", "w", "n">>),
                  category     |-> categorize_transaction(sms_text, amount)])

\* json.dumps / json.loads of a draft: every value of a draft is a str, a
\* number or null, which the round trip returns unchanged
json_dumps(d) == [json |-> d]

json_loads(text) == text.json

AIResponse(success, provider, text) ==
    [success |-> success, provider |-> provider, text |-> text]

\* a faulty variant of try_normalized: the response is not tagged with the
\* provider that answered
try_normalized_mistagged(provider, normalized) ==
    IF normalized.raised THEN [kind |-> "raise", why |-> "normalize_error"]
    ELSE [kind |-> "return",
          response |-> AIResponse(TRUE, "rule_based", json_dumps(normalized.val))]

\* lines 58-62: return the normalized draft, unless _normalize_result raised
try_normalized(provider, normalized) ==
    IF normalized.raised THEN [kind |-> "raise", why |-> "normalize_error"]
    ELSE [kind |-> "return",
          response |-> AIResponse(TRUE, provider, json_dumps(normalized.val))]

\* lines 50-58 for the cleaned text
try_cleaned(provider, cleaned, obj, sms_text) ==
    IF cleaned = <<>> THEN [kind |-> "continue", why |-> "no_json_object"]
    ELSE IF ~valid_json(cleaned, obj)
    THEN [kind |-> "continue",
          why |-> IF json_loads_object(cleaned, obj).raised
                  THEN "invalid_json" ELSE "missing_key"]
    ELSE try_normalized(provider,
             normalize_result(json_loads_object(cleaned, obj).val, sms_text))

\* the try block of the loop body once _call_provider has returned raw
\* (lines 45-62): return a response, continue with the next provider, or
\* an exception
try_provider(provider, raw, sms_text) ==
    IF ~Truthy(raw) THEN [kind |-> "continue", why |-> "no_response"]
    ELSE try_cleaned(provider, clean_json(raw), raw.obj, sms_text)

\* `except Exception as e: ... continue` (lines 64-66)
except_continue(body) ==
    IF body.kind = "raise" THEN [kind |-> "continue", why |-> body.why]
    ELSE body

\* a faulty variant of provider_attempt: the loop body without its handler
provider_attempt_unhandled(provider, raw, sms_text) ==
    try_provider(provider, raw, sms_text)

\* the loop body with its handler (lines 41-66)
provider_attempt(provider, raw, sms_text) ==
    except_continue(try_provider(provider, raw, sms_text))

ERROR_DRAFT ==
    [txn_type     |-> "Unknown",
     amount       |-> JNum(0),
     counterparty |-> JStr(<<"U", "n", "k", "n", "o", "w", "n">>),
     category     |-> "Miscellaneous",
     error        |-> "str(e)"]

\* a faulty variant of rule_based_response: the parsed draft is reported as
\* a failure
rule_based_response_failing(parsed, sms_text) ==
    IF parsed.raised THEN Raise
    ELSE Ret(AIResponse(FALSE, "error",
             json_dumps([parsed.val EXCEPT !.category =
                 categorize_transaction(sms_text, parsed.val.amount)])))

\* lines 76-84: the category of the parsed draft is replaced and the draft
\* returned as "rule_based"
rule_based_response(parsed, sms_text) ==
    IF parsed.raised THEN Raise
    ELSE Ret(AIResponse(TRUE, "rule_based",
             json_dumps([parsed.val EXCEPT !.category =
                 categorize_transaction(sms_text, parsed.val.amount)])))

\* the try block of the fallback (lines 74-84)
try_rule_based(sms_text) == rule_based_response(parse_sms(sms_text), sms_text)

\* `except Exception as e` of the fallback (lines 86-98)
except_error_response(body) ==
    IF body.raised
    THEN Ret(AIResponse(FALSE, "error", json_dumps(ERROR_DRAFT)))
    ELSE body

\* a faulty variant of rule_based_fallback: the fallback without its handler
rule_based_fallback_unhandled(sms_text) == try_rule_based(sms_text)

\* the fallback with its handler (lines 73-98): what analyze_sms returns
\* once the loop is over
rule_based_fallback(sms_text) == except_error_response(try_rule_based(sms_text))

(***************************************************************************)
(* backend/services/ai_agents/insights_agent.py and                        *)
(* backend/ml/reasoning_engine.py, as far as process_sms depends on them   *)
(***************************************************************************)
\* dict.get(key, default)
Get(d, k, default) == IF k \in DOMAIN d THEN d[k] ELSE default

\* InsightsAgent.generate_insight(tx): which family of advice is returned;
\* every exception inside is caught
generate_insight(tx) ==
    LET txn_type == Get(tx, "txn_type", "Unknown")
    IN  IF txn_type = "Credited" THEN "income_insight"
        ELSE IF txn_type = "Debited" THEN "expense_insight"
        ELSE "review_insight"

\* MultimodalReasoningEngine.analyze_context(transaction_data, source).
\* `amount > 5000` raises TypeError when the amount is no number.  Of the
\* labels a draft can carry only "Entertainment" lower-cases to one of
\* "food", "entertainment", and none to "medical".
analyze_context(transaction_data, source) ==
    LET amount   == Get(transaction_data, "amount", JNum(0))
        category == Get(transaction_data, "category", "Uncategorized")
    IN  IF amount.t # "num" THEN Raise
        ELSE Ret([risk_level |-> IF amount.n > 2000000 THEN "High"
                                 ELSE IF amount.n > 500000 /\ category = "Entertainment"
                                 THEN "Medium"
                                 ELSE "Low",
                  context_tags |-> IF source = "voice" THEN <<"Verified by Voice">>
                                   ELSE IF source = "ocr" THEN <<"Verified by Receipt">>
                                   ELSE <<>>,
                  flags |-> (IF amount.n > 500000 /\ category = "Entertainment"
                             THEN <<"High discretionary spending">> ELSE <<>>)
                            \o (IF amount.n > 2000000
                                THEN <<"Large transaction detected">> ELSE <<>>)])

(***************************************************************************)
(* backend/services/ai_orchestrator.py                                     *)
(***************************************************************************)
\* dict.setdefault(key, value)
SetDefault(d, k, v) == IF k \in DOMAIN d THEN d ELSE (k :> v) @@ d

\* the failure dict of process_sms's handler (lines 102-104)
PROCESS_SMS_FAILURE == [success |-> FALSE, error |-> "str(e)"]

\* lines 68-71
with_defaults(d) ==
    SetDefault(SetDefault(SetDefault(SetDefault(d,
        "txn_type", "Unknown"),
        "amount", JNum(0)),
        "counterparty", JStr(<<"U", "n", "k", "n", "o", "w", "n">>)),
        "category", "Miscellaneous")

\* lines 76-80: the category is computed again from the text and the amount
with_category(parsed, sms_text) ==
    [parsed EXCEPT !.category = categorize_transaction(sms_text, parsed.amount)]

\* lines 92-100, unless analyze_context raised
process_sms_return(provider, parsed, reasoning) ==
    IF reasoning.raised THEN PROCESS_SMS_FAILURE
    ELSE [success       |-> TRUE,
          type          |-> "sms",
          provider_used |-> provider,
          parsed_data   |-> parsed,
          category      |-> parsed.category,
          ai_insight    |-> generate_insight(parsed),
          reasoning     |-> reasoning.val]

\* lines 57-62: the draft of the response, or parse_sms over again
process_sms_parsed(sms_ai, sms_text) ==
    IF sms_ai.success THEN Ret(json_loads(sms_ai.text)) ELSE parse_sms(sms_text)

\* lines 68-100 for the parsed draft
process_sms_draft(provider, parsed) ==
    process_sms_return(provider, parsed, analyze_context(parsed, "sms"))

\* lines 57-100 for the response of analyze_sms
process_sms_response(sms_ai, got, sms_text) ==
    IF got.raised THEN PROCESS_SMS_FAILURE
    ELSE process_sms_draft(sms_ai.provider,
                           with_category(with_defaults(got.val), sms_text))

\* process_sms(sms_text) from the point where the call of analyze_sms is
\* over, with a response or an exception (lines 52-104); every exception
\* inside ends in the failure dict
process_sms_rest(analyzed, sms_text) ==
    IF analyzed.raised THEN PROCESS_SMS_FAILURE
    ELSE process_sms_response(analyzed.val,
                              process_sms_parsed(analyzed.val, sms_text),
                              sms_text)

\* whether process_voice goes on with a transcript (line 119)
usable_transcript(text) ==
    text # <<>> /\ ~contains(<<"u", "n", "a", "v", "a", "i", "l", "a", "b", "l", "e">>, lower(text))

\* the confidence thresholds of process_voice, in hundredths
LOW_CONFIDENCE == 40

MEDIUM_CONFIDENCE == 60

\* a faulty variant of confidence_branch: the lower threshold is inclusive
confidence_branch_inclusive(confidence) ==
    IF confidence <= LOW_CONFIDENCE THEN "clarify"
    ELSE IF confidence < MEDIUM_CONFIDENCE THEN "hint"
    ELSE "extract"

\* the branch the confidence of detect_intent selects (lines 133, 144, 157)
confidence_branch(confidence) ==
    IF confidence < LOW_CONFIDENCE THEN "clarify"
    ELSE IF LOW_CONFIDENCE <= confidence /\ confidence < MEDIUM_CONFIDENCE THEN "hint"
    ELSE "extract"

\* process_voice from the point where process_sms has returned sms_result
\* (lines 159-178)
voice_return(sms_result, text, intent, confidence, reasoning) ==
    IF reasoning.raised
    THEN [success |-> FALSE, error |-> "Voice processing failed"]
    ELSE [text |-> JStr(text), intent |-> intent, entities |-> "entities",
          confidence |-> confidence, voice_semantics |-> "semantics",
          reasoning |-> reasoning.val] @@ sms_result

process_voice_rest(sms_result, text, intent, confidence) ==
    voice_return(sms_result, text, intent, confidence,
                 analyze_context(Get(sms_result, "parsed_data", <<>>), "voice"))

(***************************************************************************)
(* backend/models/transaction.py, backend/services/transaction_service.py  *)
(* and the routes of backend/routers/transactions.py that save a draft     *)
(***************************************************************************)
\* Transaction(**tx): txn_type is one of the TransactionType values, amount
\* is a float with gt=0, counterparty, message and category are str.  The
\* txn_type and the category of a draft are always such values.
valid_transaction(tx) ==
    /\ tx.amount.t = "num"
    /\ tx.amount.n > 0
    /\ tx.counterparty.t = "str"
    /\ tx.message.t = "str"

\* TransactionService.create_transaction(data) on the documents of the
\* collection: insert_one(tx), then Transaction.from_mongo(tx), whose
\* ValidationError propagates.  The date and the two annotations of
\* ComplianceService.analyze_transaction, which catches every exception, are
\* left out of the document.
create_transaction(collection, data) ==
    [collection |-> Append(collection, data),
     returned   |-> IF valid_transaction(data) THEN Ret(data) ELSE Raise]

\* the txn_dict of create_transaction_from_sms (lines 97-106) and of
\* create_transaction_from_voice (lines 128-137)
txn_dict(ai_result, parsed, message) ==
    [txn_type     |-> parsed.txn_type,
     amount       |-> parsed.amount,
     counterparty |-> parsed.counterparty,
     category     |-> Get(ai_result, "category", "Unknown"),
     message      |-> message]

\* either route from the point where the pipeline has returned ai_result:
\* HTTPException(500) unless it is a success; `parsed.get` raises
\* AttributeError when there is no parsed_data; otherwise the draft is saved
route_rest(collection, ai_result, message) ==
    IF ~ai_result.success
    THEN [collection |-> collection, response |-> "HTTPException"]
    ELSE IF "parsed_data" \notin DOMAIN ai_result
    THEN [collection |-> collection, response |-> "AttributeError"]
    ELSE LET saved == create_transaction(collection,
                          txn_dict(ai_result, ai_result.parsed_data, message))
         IN  [collection |-> saved.collection,
              response   |-> IF saved.returned.raised THEN "ValidationError"
                             ELSE "saved"]

(***************************************************************************)
(* backend/ml/anomaly_detector.py                                          *)
(***************************************************************************)
\* the cap of recent_transactions
RECENT_CAP == 20

\* a faulty variant of anomaly_check: the transaction is recorded before the
\* window is read
anomaly_check_recording_first(recent, amount, category, merchant, prediction) ==
    [recent   |-> IF Len(recent) + 1 > RECENT_CAP
                  THEN Tail(Append(recent, [amount |-> amount, merchant |-> merchant]))
                  ELSE Append(recent, [amount |-> amount, merchant |-> merchant]),
     returned |-> [is_anomaly |-> TRUE, reason |-> "Duplicate transaction detected."]]

\* a faulty variant of anomaly_check: an entry anywhere in the window makes
\* a duplicate
anomaly_check_whole_window(recent, amount, category, merchant, prediction) ==
    IF \E i \in 1..Len(recent) :
          recent[i].amount = amount /\ recent[i].merchant = merchant
    THEN [recent   |-> recent,
          returned |-> [is_anomaly |-> TRUE,
                        reason |-> "Duplicate transaction detected."]]
    ELSE [recent   |-> IF Len(recent) + 1 > RECENT_CAP
                       THEN Tail(Append(recent, [amount |-> amount, merchant |-> merchant]))
                       ELSE Append(recent, [amount |-> amount, merchant |-> merchant]),
          returned |-> IF prediction = 0 - 1
                       THEN [is_anomaly |-> TRUE, reason |-> "Unusual spending pattern"]
                       ELSE IF amount > 1000000 /\ category = "Food"
                       THEN [is_anomaly |-> TRUE,
                             reason |-> "Unusually high amount for Food."]
                       ELSE [is_anomaly |-> FALSE, reason |-> ""]]

\* a faulty variant of anomaly_check: a duplicate is recorded as well
anomaly_check_recording_duplicates(recent, amount, category, merchant, prediction) ==
    [recent   |-> IF Len(recent) + 1 > RECENT_CAP
                  THEN Tail(Append(recent, [amount |-> amount, merchant |-> merchant]))
                  ELSE Append(recent, [amount |-> amount, merchant |-> merchant]),
     returned |-> IF \E i \in Max({1, Len(recent) - 4})..Len(recent) :
                        recent[i].amount = amount /\ recent[i].merchant = merchant
                  THEN [is_anomaly |-> TRUE,
                        reason |-> "Duplicate transaction detected."]
                  ELSE IF prediction = 0 - 1
                  THEN [is_anomaly |-> TRUE, reason |-> "Unusual spending pattern"]
                  ELSE IF amount > 1000000 /\ category = "Food"
                  THEN [is_anomaly |-> TRUE,
                        reason |-> "Unusually high amount for Food."]
                  ELSE [is_anomaly |-> FALSE, reason |-> ""]]

\* AnomalyDetector.check(amount, category, merchant) on recent_transactions
\* (is_trained is True from __init__ on): the window it leaves and the dict
\* it returns.  prediction is what IsolationForest.predict gives, 1 or -1;
\* the time of an entry is left out.
anomaly_check(recent, amount, category, merchant, prediction) ==
    IF \E i \in Max({1, Len(recent) - 4})..Len(recent) :
          recent[i].amount = amount /\ recent[i].merchant = merchant
    THEN [recent   |-> recent,
          returned |-> [is_anomaly |-> TRUE,
                        reason |-> "Duplicate transaction detected."]]
    ELSE [recent   |-> IF Len(recent) + 1 > RECENT_CAP
                       THEN Tail(Append(recent, [amount |-> amount, merchant |-> merchant]))
                       ELSE Append(recent, [amount |-> amount, merchant |-> merchant]),
          returned |-> IF prediction = 0 - 1
                       THEN [is_anomaly |-> TRUE, reason |-> "Unusual spending pattern"]
                       ELSE IF amount > 1000000 /\ category = "Food"
                       THEN [is_anomaly |-> TRUE,
                             reason |-> "Unusually high amount for Food."]
                       ELSE [is_anomaly |-> FALSE, reason |-> ""]]

\* the number of different amounts checked in one session of the model
MaxAmounts == 22

\* the amounts of the checks of the model, in hundredths: the amount of the
\* latest entry once more, or the next multiple of 1000.00
CheckAmounts(recent) ==
    IF recent = <<>> THEN {100000}
    ELSE {a \in {recent[Len(recent)].amount, recent[Len(recent)].amount + 100000} :
             a <= MaxAmounts * 100000}

\* the checks of the model: an amount of CheckAmounts for the merchant that
\* ChatManager passes; the fifth and the sixth most recent entry once more;
\* and, while every entry of the window is of that merchant and no amount
\* stands in it twice, the latest amount for the merchant of the test
CheckInputs(recent) ==
    {[amount |-> a, merchant |-> "Unknown Merchant"] : a \in CheckAmounts(recent)}
    \cup {recent[k] : k \in {Len(recent) - 4} \cap DOMAIN recent}
    \cup {recent[k] : k \in {j \in {Len(recent) - 5} \cap DOMAIN recent :
                                 /\ \A i \in DOMAIN recent :
                                       recent[i].merchant = "Unknown Merchant"
                                 /\ \A i, h \in DOMAIN recent :
                                       recent[i].amount = recent[h].amount => i = h}}
    \cup {[amount |-> recent[k].amount, merchant |-> "Restaurant"] :
             k \in {j \in {Len(recent)} \cap DOMAIN recent :
                       /\ \A i \in DOMAIN recent :
                             recent[i].merchant = "Unknown Merchant"
                       /\ \A i, h \in DOMAIN recent :
                             recent[i].amount = recent[h].amount => i = h}}

(***************************************************************************)
(* backend/services/autonomous_scheduler.py                                *)
(***************************************************************************)
\* the jobs start() registers with the schedule module, in order
SCHEDULED_JOBS ==
    <<"run_hourly_checks", "run_deep_analysis", "send_morning_briefing",
      "send_evening_summary">>

\* the number of threads started in one session of the model
MaxThreads == 2

(***************************************************************************)
(* The inputs of the model.                                                *)
(***************************************************************************)
\* the confidence detect_intent returns, in hundredths
CONFIDENCES == {0, 39, 40, 59, 60, 100}

\* the category values a provider may send
PROVIDER_CATEGORIES == {JStr(<<"F", "o", "o", "d">>), JNull}

Obj(txn_type, amount, counterparty, category) ==
    [txn_type |-> txn_type, amount |-> amount,
     counterparty |-> counterparty, category |-> category]

\* a dict without key k
Without(d, k) == [x \in (DOMAIN d) \ {k} |-> d[x]]

\* the JSON objects a provider may send, up to their category
PROVIDER_OBJECTS(c) ==
    { Obj(JStr(<<"D", "e", "b", "i", "t", "e", "d">>), JNum(50000),    JStr(<<"S", "w", "i", "g", "g", "y">>), c),
      Obj(JStr(<<"C", "R", "E", "D", "I", "T">>),  JStr(<<"4", "5", ",", "0", "0", "0">>), JStr(<<>>),      c),
      Obj(JStr(<<"d", "e", "b", "i", "t">>),   JNum(0 - 50000), JStr(<<"A", "m", "a", "z", "o", "n">>), c),
      Obj(JStr(<<"t", "r", "a", "n", "s", "f", "e", "r">>), JStr(<<Rupee>> \o <<" ", "1", ",", "2", "0", "0", ".", "5", "0">>), JNull, c),
      Obj(JStr(<<"d", "e", "b", "i", "t">>),   JStr(<<"f", "i", "v", "e", " ", "h", "u", "n", "d", "r", "e", "d">>), JNum(700), c),
      Obj(JStr(<<"c", "r", "e", "d", "i", "t">>),  JNull,           JStr(<<"A", "c", "m", "e">>),  c),
      Obj(JNull,            JNum(50000),     JStr(<<"S", "w", "i", "g", "g", "y">>), c),
      Obj(JStr(<<"d", "e", "b", "i", "t", "e", "d">>), JNum(3000000),   JStr(<<"L", "a", "n", "d", "l", "o", "r", "d">>), c) }

\* what a provider call may give back
RESPONSES ==
    { NoneRaw,
      StrRaw(<<>>, <<>>),
      StrRaw(<<"prose">>, <<>>),
      StrRaw(<<"}", "prose", "{">>, <<>>),
      StrRaw(<<"{", "junk", "}">>, <<>>),
      StrRaw(<<"{", "}">>, <<>>) }
    \cup
    { StrRaw(<<"{", "members", "}">>, Without(o, k)) :
        o \in {Obj(JStr(<<"D", "e", "b", "i", "t", "e", "d">>), JNum(50000), JStr(<<"S", "w", "i", "g", "g", "y">>), JStr(<<"F", "o", "o", "d">>))},
        k \in REQUIRED_KEYS }
    \cup
    { StrRaw(toks, Obj(JStr(<<"D", "e", "b", "i", "t", "e", "d">>), JNum(50000), JStr(<<"S", "w", "i", "g", "g", "y">>), JStr(<<"F", "o", "o", "d">>))) :
        toks \in { <<"fence_json", "{", "members", "}", "fence">>,
                   <<"prose", "{", "members", "}", "prose">>,
                   <<"{", "members", "}", "prose", "{", "members", "}">> } }
    \cup
    { StrRaw(<<"{", "members", "}">>, o) : o \in UNION {PROVIDER_OBJECTS(c) : c \in PROVIDER_CATEGORIES} }

\* the timeout of the HTTP client of _call_groq, in seconds; the clients of
\* the other providers are given none
PROVIDER_TIMEOUT == 18

\* how long a provider call takes: it answers at once, or it gives the
\* caller None when its client times out
DURATIONS == {0, PROVIDER_TIMEOUT}

\* the amounts handed to the classifier, in hundredths: on either side of
\* each of its thresholds
AMOUNTS == {0, 299999, 300000, 999999, 1000000, 2499999, 2500000}

(***************************************************************************)
(* The state of one request and of the agent that serves it.               *)
(***************************************************************************)
VARIABLES
    keys,          \* SMSAgent.providers: which provider has an API key
    entry,         \* the entry point the caller invoked
    pc,            \* "idle", "stt" (awaiting speech_to_text), "await"
                   \* (awaiting _call_provider), "done"
    sms_text,      \* the sms_text of analyze_sms
    idx,           \* position of the for loop in PROVIDER_ORDER
    calls,         \* the providers _call_provider was called for, in order
    failed,        \* the providers whose attempt was given up, in order
    last_failure,  \* why the latest provider attempt was given up, if it was
    raw_in,        \* the provider response that was accepted
    fallback_ran,  \* the rule-based fallback of analyze_sms was entered
    sms_ai,        \* what analyze_sms gave its caller
    voice,         \* transcript, intent and confidence of process_voice
    result,        \* what the entry point gave its caller
    elapsed,       \* seconds spent awaiting providers since the call began
    library_state, \* the module-level settings of the provider libraries
    store,         \* the documents of the transactions collection, in order
    route_response, \* how the route that saves the draft ended
    recent_transactions,  \* AnomalyDetector.recent_transactions
    argument,      \* the arguments of a call of a parser or classifier
    is_running,    \* AutonomousScheduler.is_running
    schedule_jobs, \* the jobs registered with the schedule module, in order
    threads        \* where each thread started by start() is in _run_scheduler:
                   \* "test" (at `while self.is_running`), "run_pending",
                   \* "sleep" or "exited"

vars == <<keys, entry, pc, sms_text, idx, calls, failed, last_failure, raw_in,
          fallback_ran, sms_ai, voice, result, elapsed, library_state, store,
          route_response, recent_transactions, argument, is_running,
          schedule_jobs, threads>>

\* nothing has been returned yet
NotYet == Ret([pending |-> TRUE])

NoVoice == [text |-> <<>>, intent |-> "none", confidence |-> 0]

Init ==
    /\ keys \in [Providers -> BOOLEAN]
    /\ entry = "none"
    /\ pc = "idle"
    /\ sms_text = JNull
    /\ idx = 0
    /\ calls = <<>>
    /\ failed = <<>>
    /\ last_failure = "none"
    /\ raw_in = NoneRaw
    /\ fallback_ran = FALSE
    /\ sms_ai = NotYet
    /\ voice = NoVoice
    /\ result = NotYet
    /\ elapsed = 0
    /\ library_state = [openai_api_key |-> "unset", genai_api_key |-> "unset"]
    /\ store = <<>>
    /\ route_response = "none"
    /\ recent_transactions = <<>>
    /\ argument = <<>>
    /\ is_running = FALSE
    /\ schedule_jobs = <<>>
    /\ threads = <<>>

\* a faulty variant of NextConfigured: the loop without `if not api_key:
\* continue`
NextConfigured_ignoring_keys(k) == Min({k, Len(PROVIDER_ORDER) + 1})

\* `if not api_key: continue`: the first provider at or after position k
\* that has a key (Len(PROVIDER_ORDER) + 1: the loop is over)
NextConfigured(k) ==
    Min({j \in k..Len(PROVIDER_ORDER) : keys[PROVIDER_ORDER[j]]}
        \cup {Len(PROVIDER_ORDER) + 1})

\* the caller gets what the entry point makes of analyze_sms's outcome
entry_result(e, v, sms_result) ==
    IF e = "process_sms" THEN sms_result
    ELSE process_voice_rest(sms_result, v.text, v.intent, v.confidence)

Deliver(e, v, analyzed, text) ==
    /\ pc' = "done"
    /\ sms_ai' = analyzed
    /\ result' = IF e = "analyze_sms" THEN analyzed
                 ELSE Ret(entry_result(e, v, process_sms_rest(analyzed, text)))

\* what _call_openai and _call_gemini write before their request:
\* `openai.api_key = api_key` and `genai.configure(api_key=api_key)` set
\* attributes of the imported modules, which every caller in the process
\* shares
configure(provider, state) ==
    IF provider = "openai"
    THEN [state EXCEPT !.openai_api_key = "settings.OPENAI_API_KEY"]
    ELSE IF provider = "gemini"
    THEN [state EXCEPT !.genai_api_key = "settings.GEMINI_API_KEY"]
    ELSE state

\* analyze_sms runs its for loop from position k up to the next await: the
\* call of the next provider that has a key, or, when none is left, the
\* rule-based fallback and the return
RunLoop(e, v, k, text) ==
    LET j == NextConfigured(k)
    IN  IF j <= Len(PROVIDER_ORDER)
        THEN /\ pc' = "await"
             /\ idx' = j
             /\ calls' = Append(calls, PROVIDER_ORDER[j])
             /\ library_state' = configure(PROVIDER_ORDER[j], library_state)
             /\ UNCHANGED <<fallback_ran, sms_ai, result>>
        ELSE /\ idx' = j
             /\ fallback_ran' = TRUE
             /\ Deliver(e, v, rule_based_fallback(text), text)
             /\ UNCHANGED <<calls, library_state>>

\* a caller awaits SMSAgent.analyze_sms(text)
analyze_sms(text) ==
    /\ pc = "idle"
    /\ entry' = "analyze_sms"
    /\ sms_text' = text
    /\ RunLoop("analyze_sms", voice, 1, text)
    /\ UNCHANGED <<is_running, schedule_jobs, threads>>
    /\ UNCHANGED <<keys, failed, last_failure, raw_in, voice, elapsed, store,
                   route_response, recent_transactions, argument>>

\* a caller awaits AIOrchestrator.process_sms(text)
process_sms(text) ==
    /\ pc = "idle"
    /\ entry' = "process_sms"
    /\ sms_text' = text
    /\ RunLoop("process_sms", voice, 1, text)
    /\ UNCHANGED <<is_running, schedule_jobs, threads>>
    /\ UNCHANGED <<keys, failed, last_failure, raw_in, voice, elapsed, store,
                   route_response, recent_transactions, argument>>

\* a caller awaits AIOrchestrator.process_voice(audio_base64)
process_voice ==
    /\ pc = "idle"
    /\ entry' = "process_voice"
    /\ pc' = "stt"
    /\ UNCHANGED <<is_running, schedule_jobs, threads>>
    /\ UNCHANGED <<keys, sms_text, idx, calls, failed, last_failure, raw_in,
                   fallback_ran, sms_ai, voice, result, elapsed, library_state,
                   store, route_response, recent_transactions, argument>>

\* speech_to_text returns transcript; detect_intent scores it; the
\* confidence gate (lines 116-157)
speech_to_text_returns(transcript, intent, confidence) ==
    /\ pc = "stt"
    /\ IF ~usable_transcript(strip(transcript))
       THEN /\ pc' = "done"
            /\ result' = Ret([success |-> FALSE,
                              error |-> "Speech could not be transcribed"])
            /\ UNCHANGED <<sms_text, idx, calls, fallback_ran, sms_ai, voice,
                           library_state>>
       ELSE /\ voice' = [text |-> strip(transcript), intent |-> intent,
                         confidence |-> confidence]
            /\ IF confidence_branch(confidence) = "clarify"
               THEN /\ pc' = "done"
                    /\ result' = Ret([success |-> TRUE,
                                      text    |-> JStr(strip(transcript)),
                                      intent  |-> "clarification_needed",
                                      reply   |-> "clarification"])
                    /\ UNCHANGED <<sms_text, idx, calls, fallback_ran, sms_ai,
                                   library_state>>
               ELSE IF confidence_branch(confidence) = "hint"
               THEN /\ pc' = "done"
                    /\ result' = Ret([success  |-> TRUE,
                                      text     |-> JStr(strip(transcript)),
                                      intent   |-> intent,
                                      entities |-> "entities",
                                      reply    |-> "hint"])
                    /\ UNCHANGED <<sms_text, idx, calls, fallback_ran, sms_ai,
                                   library_state>>
               ELSE /\ sms_text' = JStr(strip(transcript))
                    /\ RunLoop(entry, [text |-> strip(transcript), intent |-> intent,
                                       confidence |-> confidence],
                               1, JStr(strip(transcript)))
    /\ UNCHANGED <<is_running, schedule_jobs, threads>>
    /\ UNCHANGED <<keys, entry, failed, last_failure, raw_in, elapsed, store,
                   route_response, recent_transactions, argument>>

\* _call_provider returns raw to analyze_sms after so many seconds;
\* analyze_sms goes on to its next await or to its return (lines 43-98)
provider_returns(raw, seconds) ==
    /\ pc = "await"
    /\ seconds = PROVIDER_TIMEOUT => raw = NoneRaw
    /\ elapsed' = elapsed + seconds
    /\ LET out == provider_attempt(PROVIDER_ORDER[idx], raw, sms_text)
       IN  IF out.kind = "continue"
           THEN /\ last_failure' = out.why
                /\ failed' = Append(failed, PROVIDER_ORDER[idx])
                /\ RunLoop(entry, voice, idx + 1, sms_text)
                /\ UNCHANGED raw_in
           ELSE /\ UNCHANGED failed
                /\ raw_in' = IF out.kind = "return" THEN raw ELSE raw_in
                /\ last_failure' = IF out.kind = "return" THEN "none" ELSE out.why
                /\ Deliver(entry, voice,
                           IF out.kind = "return" THEN Ret(out.response) ELSE Raise,
                           sms_text)
                /\ UNCHANGED <<idx, calls, fallback_ran, library_state>>
    /\ UNCHANGED <<is_running, schedule_jobs, threads>>
    /\ UNCHANGED <<keys, entry, sms_text, voice, store, route_response,
                   recent_transactions, argument>>

\* POST /api/transactions/from-sms from the point where process_sms has
\* returned (lines 92-109)
create_transaction_from_sms ==
    /\ pc = "done"
    /\ entry = "process_sms"
    /\ sms_text.t = "str"
    /\ route_response = "none"
    /\ store' = route_rest(store, result.val, sms_text).collection
    /\ route_response' = route_rest(store, result.val, sms_text).response
    /\ UNCHANGED <<is_running, schedule_jobs, threads>>
    /\ UNCHANGED <<keys, entry, pc, sms_text, idx, calls, failed,
                   last_failure, raw_in, fallback_ran, sms_ai, voice, result,
                   elapsed, library_state, recent_transactions, argument>>

\* POST /api/transactions/from-voice from the point where process_voice has
\* returned (lines 123-140); the message is voice_result.get("text", "")
create_transaction_from_voice ==
    /\ pc = "done"
    /\ entry = "process_voice"
    /\ route_response = "none"
    /\ store' = route_rest(store, result.val,
                           Get(result.val, "text", JStr(<<>>))).collection
    /\ route_response' = route_rest(store, result.val,
                              Get(result.val, "text", JStr(<<>>))).response
    /\ UNCHANGED <<is_running, schedule_jobs, threads>>
    /\ UNCHANGED <<keys, entry, pc, sms_text, idx, calls, failed,
                   last_failure, raw_in, fallback_ran, sms_ai, voice, result,
                   elapsed, library_state, recent_transactions, argument>>

\* a caller calls parse_sms(text)
call_parse_sms(text) ==
    /\ pc = "idle"
    /\ entry' = "parse_sms"
    /\ pc' = "done"
    /\ argument' = [text |-> text]
    /\ result' = parse_sms(JStr(text))
    /\ UNCHANGED <<is_running, schedule_jobs, threads>>
    /\ UNCHANGED <<keys, sms_text, idx, calls, failed, last_failure, raw_in,
                   fallback_ran, sms_ai, voice, elapsed, library_state, store,
                   route_response, recent_transactions>>

\* a caller calls detect_txn_type(text_low) of the voice parser, as
\* parse_voice_command does with text.lower()
detect_txn_type_of_voice(text) ==
    /\ pc = "idle"
    /\ entry' = "voice_parser.detect_txn_type"
    /\ pc' = "done"
    /\ argument' = [text |-> text]
    /\ result' = Ret(voice_detect_txn_type(lower(text)))
    /\ UNCHANGED <<is_running, schedule_jobs, threads>>
    /\ UNCHANGED <<keys, sms_text, idx, calls, failed, last_failure, raw_in,
                   fallback_ran, sms_ai, voice, elapsed, library_state, store,
                   route_response, recent_transactions>>

\* a caller awaits CategorizationAgent.categorize_transaction(text, amount)
categorize(text, amount) ==
    /\ pc = "idle"
    /\ entry' = "categorize_transaction"
    /\ pc' = "done"
    /\ argument' = [text |-> text, amount |-> amount]
    /\ result' = Ret(categorize_transaction(JStr(text), JNum(amount)))
    /\ UNCHANGED <<is_running, schedule_jobs, threads>>
    /\ UNCHANGED <<keys, sms_text, idx, calls, failed, last_failure, raw_in,
                   fallback_ran, sms_ai, voice, elapsed, library_state, store,
                   route_response, recent_transactions>>

\* parse_email_text(text) as far as the category of its draft:
\* detect_category(text.lower()) (lines 67 and 102)
email_category(text) ==
    /\ pc = "idle"
    /\ entry' = "parse_email_text"
    /\ pc' = "done"
    /\ argument' = [text |-> text]
    /\ result' = Ret(detect_category(lower(text)))
    /\ UNCHANGED <<is_running, schedule_jobs, threads>>
    /\ UNCHANGED <<keys, sms_text, idx, calls, failed, last_failure, raw_in,
                   fallback_ran, sms_ai, voice, elapsed, library_state, store,
                   route_response, recent_transactions>>

\* a caller calls parse_pdf_statement(text)
parse_pdf_statement(text) ==
    /\ pc = "idle"
    /\ entry' = "parse_pdf_statement"
    /\ pc' = "done"
    /\ argument' = [text |-> text]
    /\ result' = Ret(parse_pdf_lines(stripped_lines(text)))
    /\ UNCHANGED <<is_running, schedule_jobs, threads>>
    /\ UNCHANGED <<keys, sms_text, idx, calls, failed, last_failure, raw_in,
                   fallback_ran, sms_ai, voice, elapsed, library_state, store,
                   route_response, recent_transactions>>

\* a caller calls AnomalyDetector.check(amount, category, merchant) on the
\* detector of the process, once more in a session of checks
check(amount, category, merchant, prediction) ==
    /\ pc \in {"idle", "checked"}
    /\ entry \in {"none", "check"}
    /\ entry' = "check"
    /\ pc' = "checked"
    /\ argument' = [amount |-> amount, category |-> category, merchant |-> merchant]
    /\ recent_transactions' =
          anomaly_check(recent_transactions, amount, category, merchant, prediction).recent
    /\ result' =
          Ret(anomaly_check(recent_transactions, amount, category, merchant, prediction).returned)
    /\ UNCHANGED <<is_running, schedule_jobs, threads>>
    /\ UNCHANGED <<keys, sms_text, idx, calls, failed, last_failure, raw_in,
                   fallback_ran, sms_ai, voice, elapsed, library_state, store,
                   route_response>>

\* a caller calls AutonomousScheduler.start(), once more in a session of
\* calls on the scheduler of the process
start ==
    /\ pc \in {"idle", "scheduling"}
    /\ entry \in {"none", "scheduler"}
    /\ entry' = "scheduler"
    /\ pc' = "scheduling"
    /\ argument' = [call |-> "start"]
    /\ IF is_running
       THEN UNCHANGED <<is_running, schedule_jobs, threads>>
       ELSE /\ Len(threads) < MaxThreads
            /\ is_running' = TRUE
            /\ schedule_jobs' = schedule_jobs \o SCHEDULED_JOBS
            /\ threads' = Append(threads, "test")
    /\ UNCHANGED <<keys, sms_text, idx, calls, failed, last_failure, raw_in,
                   fallback_ran, sms_ai, voice, result, elapsed, library_state,
                   store, route_response, recent_transactions>>

\* a caller calls AutonomousScheduler.stop(); the thread is not joined
stop ==
    /\ pc \in {"idle", "scheduling"}
    /\ entry \in {"none", "scheduler"}
    /\ entry' = "scheduler"
    /\ pc' = "scheduling"
    /\ argument' = [call |-> "stop"]
    /\ is_running' = FALSE
    /\ schedule_jobs' = <<>>
    /\ UNCHANGED threads
    /\ UNCHANGED <<keys, sms_text, idx, calls, failed, last_failure, raw_in,
                   fallback_ran, sms_ai, voice, result, elapsed, library_state,
                   store, route_response, recent_transactions>>

\* thread t takes its next step in _run_scheduler: the test of the while
\* loop, schedule.run_pending(), or the end of time.sleep(60)
run_scheduler(t) ==
    /\ entry = "scheduler"
    /\ threads[t] # "exited"
    /\ threads' = [threads EXCEPT ![t] =
                      IF threads[t] = "test"
                      THEN IF is_running THEN "run_pending" ELSE "exited"
                      ELSE IF threads[t] = "run_pending" THEN "sleep"
                      ELSE "test"]
    /\ UNCHANGED <<is_running, schedule_jobs>>
    /\ UNCHANGED <<keys, entry, pc, sms_text, idx, calls, failed, last_failure,
                   raw_in, fallback_ran, sms_ai, voice, result, elapsed,
                   library_state, store, route_response, recent_transactions,
                   argument>>

INTENTS == {"transaction_add"}

Next ==
    \/ \E text \in SMS_TEXTS : analyze_sms(text)
    \/ \E text \in SMS_TEXTS : process_sms(text)
    \/ process_voice
    \/ \E transcript \in TRANSCRIPTS, intent \in INTENTS, confidence \in CONFIDENCES :
          speech_to_text_returns(transcript, intent, confidence)
    \/ \E raw \in RESPONSES, seconds \in DURATIONS :
          provider_returns(raw, seconds)
    \/ \E text \in TEXT_POOL : call_parse_sms(text)
    \/ \E text \in TEXT_POOL : detect_txn_type_of_voice(text)
    \/ \E text \in TEXT_POOL, amount \in AMOUNTS : categorize(text, amount)
    \/ \E text \in TEXT_POOL : email_category(text)
    \/ \E text \in PdfTexts(MaxPdfLines) : parse_pdf_statement(text)
    \/ \E input \in CheckInputs(recent_transactions), category \in {"Food", "Travel"},
          prediction \in {1, 0 - 1} :
          check(input.amount, category, input.merchant, prediction)
    \/ create_transaction_from_sms
    \/ create_transaction_from_voice
    \/ start
    \/ stop
    \/ \E t \in DOMAIN threads : run_scheduler(t)

Spec == Init /\ [][Next]_vars


(***************************************************************************)
(* Properties.                                                             *)
(***************************************************************************)
\* the draft an AIResponse carries
draft_of(response) == json_loads(response.text)

\* analyze_sms has returned or raised
Analyzed == pc = "done" /\ sms_ai # NotYet

\* C1: the providers are attempted in the order groq, openai, gemini,
\* cohere, one at a time: the providers called so far are exactly the
\* configured ones up to the loop's position, in that order (so none without
\* a key is called); every provider called before the latest one has failed;
\* and once a response is accepted the call is over with that provider the
\* last one called.
C1_FixedOrder ==
    /\ calls = SelectSeq(SubSeq(<<"groq", "openai", "gemini", "cohere">>,
                                1, Min({idx, 4})),
                         LAMBDA p : keys[p])
    /\ failed = IF pc = "await" \/ raw_in # NoneRaw
                THEN SubSeq(calls, 1, Len(calls) - 1)
                ELSE calls
    /\ raw_in # NoneRaw =>
          /\ pc = "done"
          /\ calls # <<>>
          /\ calls[Len(calls)] = <<"groq", "openai", "gemini", "cohere">>[idx]

\* groq failed, openai has no key and was skipped, gemini was accepted
C1_Witness ==
    /\ pc = "done"
    /\ raw_in # NoneRaw
    /\ ~keys["openai"]
    /\ keys["cohere"]
    /\ calls = <<"groq", "gemini">>
    /\ failed = <<"groq">>

\* C2: a provider attempt that does not end in an accepted response (no
\* response, no JSON object, invalid JSON, a missing key, an error while
\* normalizing) raises nothing out of analyze_sms and is followed at once by
\* the call of the next provider that has a key or, when there is none, by
\* the rule-based fallback.
C2_FailureAdvances ==
    [][(pc = "await" /\ raw_in' = NoneRaw) =>
          /\ failed' = Append(failed, PROVIDER_ORDER[idx])
          /\ last_failure' \in {"no_response", "no_json_object", "invalid_json",
                                "missing_key", "normalize_error"}
          /\ ~sms_ai'.raised
          /\ IF \E j \in (idx + 1)..4 : keys[PROVIDER_ORDER[j]]
             THEN /\ pc' = "await"
                  /\ ~fallback_ran'
                  /\ calls' = Append(calls,
                        PROVIDER_ORDER[Min({j \in (idx + 1)..4 : keys[PROVIDER_ORDER[j]]})])
             ELSE /\ pc' = "done"
                  /\ fallback_ran'
                  /\ calls' = calls
                  /\ sms_ai'.val.provider \in {"rule_based", "error"}]_vars

\* normalizing the response of one provider raised and the next provider
\* is being called
C2_Witness ==
    /\ pc = "await"
    /\ last_failure = "normalize_error"
    /\ Len(failed) >= 1

\* C3: when no provider's response was accepted, analyze_sms has run the
\* rule-based fallback, and when parse_sms completes the response is a
\* success tagged "rule_based" whose draft is that of parse_sms with the
\* category of the Category Classifier.
C3_FallbackWhenAllFail ==
    (Analyzed /\ raw_in = NoneRaw) =>
        /\ fallback_ran
        /\ ~parse_sms(sms_text).raised =>
              /\ ~sms_ai.raised
              /\ sms_ai.val.success
              /\ sms_ai.val.provider = "rule_based"
              /\ draft_of(sms_ai.val) =
                    [parse_sms(sms_text).val EXCEPT !.category =
                        categorize_transaction(sms_text,
                                               parse_sms(sms_text).val.amount)]

\* one provider has no key, another failed, and the fallback answered
C3_Witness ==
    /\ Analyzed
    /\ Len(failed) >= 1
    /\ \E p \in Providers : ~keys[p]
    /\ ~sms_ai.raised
    /\ sms_ai.val.provider = "rule_based"

\* C4: when the rule-based fallback raises, analyze_sms raises nothing and
\* returns success = false, provider "error" and the draft Unknown / 0 /
\* Unknown / Miscellaneous with an error field.
C4_FallbackErrorDraft ==
    (Analyzed /\ fallback_ran /\ parse_sms(sms_text).raised) =>
        sms_ai = Ret([success  |-> FALSE,
                      provider |-> "error",
                      text     |-> json_dumps(
                          [txn_type     |-> "Unknown",
                           amount       |-> JNum(0),
                           counterparty |-> JStr(<<"U", "n", "k", "n", "o", "w", "n">>),
                           category     |-> "Miscellaneous",
                           error        |-> "str(e)"])])

\* the text is no str, a provider failed, and the fallback raised
C4_Witness ==
    /\ Analyzed
    /\ fallback_ran
    /\ sms_text = JNull
    /\ Len(failed) >= 1
    /\ ~sms_ai.raised
    /\ sms_ai.val.provider = "error"

\* the three outcomes of analyze_sms
ProviderSuccess ==
    /\ sms_ai.val.success
    /\ sms_ai.val.provider \in {"groq", "openai", "gemini", "cohere"}
    /\ raw_in # NoneRaw
    /\ sms_ai.val.provider = calls[Len(calls)]
    /\ ~fallback_ran

RuleBasedSuccess ==
    /\ sms_ai.val.success
    /\ sms_ai.val.provider = "rule_based"
    /\ raw_in = NoneRaw
    /\ fallback_ran

ErrorDraft ==
    /\ ~sms_ai.val.success
    /\ sms_ai.val.provider = "error"
    /\ "error" \in DOMAIN draft_of(sms_ai.val)
    /\ raw_in = NoneRaw
    /\ fallback_ran

\* C5: a call of analyze_sms comes to its end once every provider call
\* has returned or failed: whenever a provider call returns, analyze_sms
\* either ends or calls a provider further on in the order, and there are
\* four of them.  At its end it has returned exactly one of a success tagged
\* with the provider that answered, a success tagged rule_based, and the
\* error draft.  Each provider is attempted at most once, so there are at
\* most four attempts.
C5_TerminatesInOneOutcome ==
    /\ [](Analyzed => /\ ~sms_ai.raised
                      /\ Cardinality({o \in {"provider", "rule_based", "error"} :
                            \/ o = "provider" /\ ProviderSuccess
                            \/ o = "rule_based" /\ RuleBasedSuccess
                            \/ o = "error" /\ ErrorDraft}) = 1)
    /\ [](/\ Len(calls) <= 4
          /\ \A i, j \in 1..Len(calls) : i # j => calls[i] # calls[j]
          /\ pc = "await" => idx \in 1..4)
    /\ [][pc = "await" => \/ pc' = "done"
                          \/ pc' = "await" /\ idx' > idx]_vars

\* four attempts were made and the fourth provider answered
C5_Witness ==
    /\ Analyzed
    /\ Len(calls) = 4
    /\ ~sms_ai.raised
    /\ ProviderSuccess
    /\ sms_ai.val.provider = "cohere"

\* C6: when no provider's response was accepted, the draft analyze_sms
\* returns has the txn_type, amount, counterparty and category that
\* parse_sms gives for the same text.
C6_FallbackEqualsRuleBased ==
    (Analyzed /\ raw_in = NoneRaw /\ ~parse_sms(sms_text).raised) =>
        \A k \in {"txn_type", "amount", "counterparty", "category"} :
            draft_of(sms_ai.val)[k] = parse_sms(sms_text).val[k]

\* C7: every draft analyze_sms returns has a txn_type among Credited,
\* Debited and Unknown, an amount that is a number >= 0, a counterparty that
\* is a non-empty str and a non-empty category.
C7_DraftWellFormed ==
    Analyzed =>
        /\ draft_of(sms_ai.val).txn_type \in {"Credited", "Debited", "Unknown"}
        /\ draft_of(sms_ai.val).amount.t = "num"
        /\ draft_of(sms_ai.val).amount.n >= 0
        /\ draft_of(sms_ai.val).counterparty.t = "str"
        /\ draft_of(sms_ai.val).counterparty.s # <<>>
        /\ draft_of(sms_ai.val).category # ""

\* C8: every draft returned as a success by analyze_sms, and every
\* parsed_data returned as a success by process_sms, has all of txn_type,
\* amount, counterparty, category, message (the input text) and date.
C8_DraftComplete ==
    /\ (Analyzed /\ sms_ai.val.success) =>
          /\ {"txn_type", "amount", "counterparty", "category", "message", "date"}
                \subseteq DOMAIN draft_of(sms_ai.val)
          /\ draft_of(sms_ai.val).message = sms_text
    /\ (Analyzed /\ entry = "process_sms" /\ result.val.success) =>
          /\ {"txn_type", "amount", "counterparty", "category", "message", "date"}
                \subseteq DOMAIN result.val.parsed_data
          /\ result.val.parsed_data.message = sms_text

\* C9: on the provider path the category of the draft is that of the
\* Category Classifier for the text and the normalized amount, and the same
\* response with any other category in it gives the same response of
\* analyze_sms and the same result of the entry point.
C9_CategoryIgnoresProvider ==
    (Analyzed /\ raw_in # NoneRaw) =>
        /\ draft_of(sms_ai.val).category =
              categorize_transaction(sms_text, draft_of(sms_ai.val).amount)
        /\ \A c \in PROVIDER_CATEGORIES :
              /\ provider_attempt(PROVIDER_ORDER[idx],
                                  [raw_in EXCEPT !.obj.category = c], sms_text)
                    = [kind |-> "return", response |-> sms_ai.val]
              /\ entry # "analyze_sms" =>
                    result = Ret(entry_result(entry, voice,
                                 process_sms_rest(
                                     Ret(provider_attempt(PROVIDER_ORDER[idx],
                                             [raw_in EXCEPT !.obj.category = c],
                                             sms_text).response),
                                     sms_text)))

\* a response whose category is a str was accepted for a text that the
\* Category Classifier labels by a keyword
C9_Witness ==
    /\ Analyzed
    /\ raw_in # NoneRaw
    /\ raw_in.obj.category = JStr(<<"F", "o", "o", "d">>)
    /\ ~sms_ai.raised
    /\ draft_of(sms_ai.val).category = "Food & Dining"

\* no provider was called, the fallback did not run, no draft is returned
NoExtraction ==
    /\ pc = "done"
    /\ calls = <<>>
    /\ ~fallback_ran
    /\ sms_ai = NotYet
    /\ "parsed_data" \notin DOMAIN result.val

\* C10: in process_voice with a usable transcript, a confidence below 0.4
\* returns a clarification request, one from 0.4 up to but not including 0.6
\* returns a hint, and one of 0.6 or more runs the SMS pipeline on the
\* transcript; in the first two cases there is no extraction.
C10_ConfidenceGate ==
    (entry = "process_voice" /\ voice # NoVoice) =>
        /\ voice.confidence < 40 =>
              /\ NoExtraction
              /\ result.val.intent = "clarification_needed"
              /\ result.val.reply = "clarification"
        /\ (40 <= voice.confidence /\ voice.confidence < 60) =>
              /\ NoExtraction
              /\ result.val.intent = voice.intent
              /\ result.val.reply = "hint"
        /\ voice.confidence >= 60 =>
              /\ pc \in {"await", "done"}
              /\ sms_text = JStr(voice.text)
              /\ calls # <<>> \/ fallback_ran
              /\ pc = "done" =>
                    /\ Analyzed
                    /\ "reply" \notin DOMAIN result.val

\* a transcript scored exactly 0.4 got the hint
C10_Witness ==
    /\ entry = "process_voice"
    /\ pc = "done"
    /\ voice.confidence = 40
    /\ voice.text # <<>>
    /\ result.val.reply = "hint"

\* C11: a transcript that is empty or contains "unavailable" or "failed"
\* makes process_voice return an explicit failure; no intent is detected on
\* it and nothing is extracted from it.
C11_SentinelTranscriptFails ==
    (entry = "process_voice" /\ voice # NoVoice) =>
        /\ voice.text # <<>>
        /\ ~contains(<<"u", "n", "a", "v", "a", "i", "l", "a", "b", "l", "e">>, lower(voice.text))
        /\ ~contains(<<"f", "a", "i", "l", "e", "d">>, lower(voice.text))

\* C12: the transaction store holds no record whose amount is not above
\* zero, and a save that ends in an error has left the store as it was.
C12_StoreAmountsPositive ==
    /\ \A i \in 1..Len(store) :
          store[i].amount.t = "num" /\ store[i].amount.n > 0
    /\ route_response \in {"ValidationError", "AttributeError", "HTTPException"}
          => store = <<>>

\* what process_sms or process_voice returned is a success with a draft of
\* the four fields, a clarification or hint, or an explicit failure
StructuredResult ==
    /\ ~result.raised
    /\ "success" \in DOMAIN result.val
    /\ IF ~result.val.success THEN "error" \in DOMAIN result.val
       ELSE \/ "reply" \in DOMAIN result.val
            \/ /\ "parsed_data" \in DOMAIN result.val
               /\ {"txn_type", "amount", "counterparty", "category"}
                     \subseteq DOMAIN result.val.parsed_data

\* C13: process_sms and process_voice never raise, what they return is a
\* success with a draft, a clarification or hint, or an explicit failure, and
\* the route that called them meets no exception it does not handle.
C13_NoUnhandledException ==
    /\ (pc = "done" /\ entry \in {"process_sms", "process_voice"})
          => StructuredResult
    /\ route_response \in {"none", "saved", "HTTPException"}

\* the half of C13 about the entry points alone
C13_EntryPointsNeverRaise ==
    (pc = "done" /\ entry \in {"process_sms", "process_voice"})
        => StructuredResult

\* the category the unified classifier gives text, whatever the amount
ClassifierCategories(text) ==
    {categorize_transaction(JStr(text), JNum(amount)) : amount \in AMOUNTS}

\* C14: the category a channel's extraction path assigns to a text is the
\* one CategorizationAgent.categorize_transaction assigns to it: the draft of
\* process_sms (SMS and voice) and the category of an e-mail both carry the
\* classifier's label.
C14_ChannelsUseUnifiedClassifier ==
    /\ (pc = "done" /\ entry \in {"process_sms", "process_voice"}
           /\ ~result.raised /\ "parsed_data" \in DOMAIN result.val) =>
          result.val.category =
              categorize_transaction(sms_text, result.val.parsed_data.amount)
    /\ (pc = "done" /\ entry = "parse_email_text") =>
          result.val \in ClassifierCategories(argument.text)

\* the entries of category_map whose keyword occurs in text as a word
KeywordHits(text) ==
    {n \in 1..Len(category_map) : word_search(category_map[n], lower(text))}

\* C15: when keywords of categories occur in the text, categorize_transaction
\* returns the category of the one that comes earliest in category_map,
\* wherever the keywords stand in the text.
C15_TablePrecedence ==
    (pc = "done" /\ entry = "categorize_transaction"
        /\ KeywordHits(argument.text) # {}) =>
           result.val = category_map[Min(KeywordHits(argument.text))].category

\* "swiggy" stands before "refund" in the text and after it in the table
C15_Witness ==
    /\ pc = "done"
    /\ entry = "categorize_transaction"
    /\ argument.text = <<"s", "w", "i", "g", "g", "y", " ", "r", "e", "f", "u", "n", "d", " ", "o", "f", " ", "r", "s", " ", "1", "2", "0">>
    /\ Cardinality({category_map[n].category : n \in KeywordHits(argument.text)}) = 2
    /\ result.val = "Refund"

\* a date is parsed from the line and an amount above zero is parsed from it
DatedPositive(line) ==
    pdf_date(lower(line)).src = "text" /\ pdf_amount(lower(line)) > 0

\* C16: parse_pdf_statement emits at most one draft for each non-empty line,
\* in the order of the lines; the lines emitted are exactly those from which
\* a date and an amount above zero are parsed, so a line without a date is
\* dropped whatever else it holds; total_extracted is the number of drafts.
C16_DatedPositiveLinesOnly ==
    (pc = "done" /\ entry = "parse_pdf_statement") =>
        LET lines == stripped_lines(argument.text)
            out   == result.val.transactions
        IN  /\ result.val.total_extracted = Len(out)
            /\ Len(out) <= Len(lines)
            /\ [i \in 1..Len(out) |-> out[i].message.s]
                  = SelectSeq(lines, DatedPositive)
            /\ \A i \in 1..Len(out) :
                  out[i].amount.n > 0 /\ out[i].date.src = "text"

\* of a line with an amount and no date and a line with both, in this
\* order, the second alone is emitted
C16_Witness ==
    /\ pc = "done"
    /\ entry = "parse_pdf_statement"
    /\ argument.text = <<"o", "p", "e", "n", "i", "n", "g", " ", "b", "a", "l", "a", "n", "c", "e", " ", "1", "0", ",", "0", "0", "0", ".", "0", "0">> \o <<"\n">>
                          \o <<"1", "2", "/", "0", "3", "/", "2", "0", "2", "4", " ", "u", "p", "i", " ", "s", "w", "i", "g", "g", "y", " ", "4", "5", "0", ".", "0", "0", " ", "d", "r">>
    /\ result.val.total_extracted = 1
    /\ result.val.transactions[1].message = JStr(<<"1", "2", "/", "0", "3", "/", "2", "0", "2", "4", " ", "u", "p", "i", " ", "s", "w", "i", "g", "g", "y", " ", "4", "5", "0", ".", "0", "0", " ", "d", "r">>)
    /\ result.val.transactions[1].amount = JNum(45000)

\* C17: once the seconds spent awaiting providers exceed the caller's
\* budget, be it one provider timeout or two, analyze_sms calls no further
\* provider: the provider that just returned is the last one called.
C17_BudgetStopsCascade ==
    [][\A budget \in {PROVIDER_TIMEOUT, 2 * PROVIDER_TIMEOUT} :
          (pc = "await" /\ elapsed' > budget) => calls' = calls]_vars

\* C18: no step of an extraction writes state that concurrent calls share:
\* what analyze_sms changes is local to the call.
C18_NoSharedStateWritten ==
    [][library_state' = library_state]_vars

\* the entry AnomalyDetector.check records for its arguments
CheckedEntry == [amount |-> argument.amount, merchant |-> argument.merchant]

\* C19: recent_transactions never holds more than 20 entries; a check either
\* leaves it as it was or appends its transaction at the end, evicting the
\* oldest entry, and only that, when the append exceeds the cap; and the
\* window is read before the append: a check is reported as a duplicate
\* exactly when its transaction was among the last five entries before it.
C19_BoundedWindow ==
    /\ [](Len(recent_transactions) <= 20)
    /\ [][entry' = "check" =>
            /\ \/ recent_transactions' = recent_transactions
               \/ /\ Len(recent_transactions) < 20
                  /\ recent_transactions' = Append(recent_transactions, CheckedEntry')
               \/ /\ Len(recent_transactions) = 20
                  /\ recent_transactions' =
                        Tail(recent_transactions) \o <<CheckedEntry'>>
            /\ (result'.val.reason = "Duplicate transaction detected.")
                  = (\E i \in 1..Len(recent_transactions) :
                        /\ i > Len(recent_transactions) - 5
                        /\ recent_transactions[i] = CheckedEntry')
            /\ (result'.val.reason = "Duplicate transaction detected.")
                  = (recent_transactions' = recent_transactions)]_vars

\* the window is full and its oldest entry has been evicted
C19_Witness ==
    /\ entry = "check"
    /\ Len(recent_transactions) = 20
    /\ recent_transactions[1].amount = 200000
    /\ recent_transactions[20].amount = 2100000

C20_ProcessSmsAfterCategory ==
    (/\ pc = "done"
     /\ entry = "process_sms"
     /\ "reasoning" \in DOMAIN result.val) =>
        /\ result.val.category =
              categorize_transaction(sms_text, result.val.parsed_data.amount)
        /\ result.val.parsed_data.category = result.val.category
        /\ result.val.reasoning =
              analyze_context(result.val.parsed_data, "sms").val
        /\ result.val.ai_insight = generate_insight(result.val.parsed_data)

\* C21: with no provider configured, the draft analyze_sms returns for
\* "Paid Rs. 500 to Swiggy for dinner" has txn_type Debited, amount 500.0,
\* counterparty "Swiggy" and category "Food & Dining".
C21_SwiggyExtraction ==
    (/\ Analyzed
     /\ \A p \in DOMAIN keys : ~keys[p]
     /\ sms_text = JStr(<<"P", "a", "i", "d", " ", "R", "s", ".", " ", "5", "0", "0", " ", "t", "o", " ", "S", "w", "i", "g", "g", "y", " ", "f", "o", "r", " ", "d", "i", "n", "n", "e", "r">>)) =>
        /\ draft_of(sms_ai.val).txn_type = "Debited"
        /\ draft_of(sms_ai.val).amount = JNum(50000)
        /\ draft_of(sms_ai.val).counterparty = JStr(<<"S", "w", "i", "g", "g", "y">>)
        /\ draft_of(sms_ai.val).category = "Food & Dining"

\* the part of C21 that holds: every field but the counterparty, which is
\* the whole capture after "to"
C21_SwiggyAllButCounterparty ==
    (/\ Analyzed
     /\ \A p \in DOMAIN keys : ~keys[p]
     /\ sms_text = JStr(<<"P", "a", "i", "d", " ", "R", "s", ".", " ", "5", "0", "0", " ", "t", "o", " ", "S", "w", "i", "g", "g", "y", " ", "f", "o", "r", " ", "d", "i", "n", "n", "e", "r">>)) =>
        /\ draft_of(sms_ai.val).txn_type = "Debited"
        /\ draft_of(sms_ai.val).amount = JNum(50000)
        /\ draft_of(sms_ai.val).counterparty = JStr(<<"S", "w", "i", "g", "g", "y", " ", "F", "o", "r", " ", "D", "i", "n", "n", "e", "r">>)
        /\ draft_of(sms_ai.val).category = "Food & Dining"

\* the text of a response from its first "{" to its last "}", the code
\* fences left out; <<>> when a brace is missing
Candidate(raw) ==
    LET t      == SelectSeq(raw.toks, LAMBDA c : c # "fence_json" /\ c # "fence")
        opens  == {k \in 1..Len(t) : t[k] = "{"}
        closes == {k \in 1..Len(t) : t[k] = "}"}
    IN  IF opens = {} \/ closes = {} THEN <<>>
        ELSE SubSeq(t, Min(opens), Max(closes))

\* the candidate is one JSON object with the four keys
Acceptable(raw) ==
    /\ ~raw.isnone
    /\ Candidate(raw) = <<"{", "members", "}">>
    /\ {"txn_type", "amount", "counterparty", "category"} \subseteq DOMAIN raw.obj

C23_ProviderAmountIsFloat ==
    (Analyzed /\ raw_in # NoneRaw /\ ~sms_ai.raised) =>
        /\ draft_of(sms_ai.val).amount.t = "num"
        /\ raw_in.obj.amount.t = "num" =>
              draft_of(sms_ai.val).amount = raw_in.obj.amount
        /\ raw_in.obj.amount.t = "str" =>
              draft_of(sms_ai.val).amount \in
                  {JNum(f.v) : f \in {float(SelectSeq(raw_in.obj.amount.s,
                                         LAMBDA c : c # "," /\ c # Rupee))}}
                  \cup {JNum(0)}
        /\ raw_in.obj.amount.t \notin {"num", "str"} =>
              draft_of(sms_ai.val).amount = JNum(0)

\* the part of C23 about amounts that are a str or a number
C23_StrAndNumAmounts ==
    (Analyzed /\ raw_in # NoneRaw /\ ~sms_ai.raised
       /\ raw_in.obj.amount.t \in {"num", "str"}) =>
        /\ draft_of(sms_ai.val).amount.t = "num"
        /\ raw_in.obj.amount.t = "num" =>
              draft_of(sms_ai.val).amount = raw_in.obj.amount
        /\ raw_in.obj.amount.t = "str" =>
              LET f == float(SelectSeq(raw_in.obj.amount.s,
                                       LAMBDA c : c # "," /\ c # Rupee))
              IN  draft_of(sms_ai.val).amount = JNum(IF f.ok THEN f.v ELSE 0)

\* the AMOUNT_PATTERNS that match s with a capture float() accepts
ParsingPatterns(s) ==
    {n \in 1..NumAmountPatterns :
        /\ amount_search(n, s).found
        /\ float(remove_char(amount_search(n, s).g, ",")).ok}

\* the value of the first pattern that matches and parses, the bare number
\* of 3 to 7 digits counting as the last pattern; 0 when there is none
FirstParsedAmount(s) ==
    IF ParsingPatterns(s) # {}
    THEN float(remove_char(amount_search(Min(ParsingPatterns(s)), s).g, ",")).v
    ELSE IF bare_number(s).found THEN float(bare_number(s).g).v
    ELSE 0

\* C24: the amount parse_sms returns is the value of the first pattern, in
\* the order of AMOUNT_PATTERNS with the bare number last, that matches and
\* parses, no later pattern being consulted once one has; it is 0 when no
\* pattern matches and parses; and the extraction raises nothing.
C24_FirstParsingPatternWins ==
    (pc = "done" /\ entry = "parse_sms") =>
        /\ ~result.raised
        /\ result.val.amount = JNum(FirstParsedAmount(strip(lower(argument.text))))

\* the part of C24 that holds: the same when the first pattern that matches
\* and parses gives a value other than 0
C24_FirstNonZeroPatternWins ==
    (/\ pc = "done" /\ entry = "parse_sms"
     /\ FirstParsedAmount(strip(lower(argument.text))) # 0) =>
        /\ ~result.raised
        /\ result.val.amount = JNum(FirstParsedAmount(strip(lower(argument.text))))

\* Credited when the text has a credit keyword, Debited when it has a debit
\* keyword and no credit keyword, Unknown when it has neither
TypeByKeywords(text_low, credit, debit) ==
    IF \E k \in credit : contains(k, text_low) THEN "Credited"
    ELSE IF \E k \in debit : contains(k, text_low) THEN "Debited"
    ELSE "Unknown"

\* C25: the transaction type of parse_sms and that of the voice parser's
\* detect_txn_type are Credited whenever the text has one of the channel's
\* credit keywords, Debited when it has a debit keyword and no credit
\* keyword, and Unknown when it has neither (the voice parser has no debit
\* keyword).
C25_TxnTypeByKeywords ==
    /\ (pc = "done" /\ entry = "parse_sms") =>
          result.val.txn_type =
              TypeByKeywords(strip(lower(argument.text)),
                  {<<"c", "r", "e", "d", "i", "t", "e", "d">>, <<" ", "c", "r", "e", "d", "i", "t", " ">>, <<" ", "c", "r", " ">>, <<"r", "e", "c", "e", "i", "v", "e", "d">>},
                  {<<"d", "e", "b", "i", "t", "e", "d">>, <<" ", "d", "e", "b", "i", "t", " ">>, <<" ", "d", "r", " ">>, <<"s", "p", "e", "n", "t">>, <<"p", "a", "i", "d">>})
    /\ (pc = "done" /\ entry = "voice_parser.detect_txn_type") =>
          result.val =
              TypeByKeywords(lower(argument.text),
                  {<<"s", "a", "l", "a", "r", "y">>, <<"i", "n", "c", "o", "m", "e">>, <<"c", "r", "e", "d", "i", "t", "e", "d">>, <<"p", "a", "i", "s", "a", " ", "a", "y", "a">>, <<"r", "e", "c", "e", "i", "v", "e", "d">>},
                  {})

\* the part of C25 about parse_sms
C25_SmsTxnTypeByKeywords ==
    (pc = "done" /\ entry = "parse_sms") =>
        result.val.txn_type =
            TypeByKeywords(strip(lower(argument.text)),
                {<<"c", "r", "e", "d", "i", "t", "e", "d">>, <<" ", "c", "r", "e", "d", "i", "t", " ">>, <<" ", "c", "r", " ">>, <<"r", "e", "c", "e", "i", "v", "e", "d">>},
                {<<"d", "e", "b", "i", "t", "e", "d">>, <<" ", "d", "e", "b", "i", "t", " ">>, <<" ", "d", "r", " ">>, <<"s", "p", "e", "n", "t">>, <<"p", "a", "i", "d">>})

\* the COUNTERPARTY_PATTERNS that match s
MatchingPatterns(s) ==
    {n \in 1..Len(COUNTERPARTY_PATTERNS) : counterparty_search(n, s).found}

\* the capture of the first pattern that matches, cleaned; "Unknown" when
\* no pattern matches
FirstMatchCounterparty(s) ==
    IF MatchingPatterns(s) = {} THEN <<"U", "n", "k", "n", "o", "w", "n">>
    ELSE clean_counterparty(counterparty_search(Min(MatchingPatterns(s)), s).g)

\* C26: the counterparty parse_sms returns is the capture of the first of
\* COUNTERPARTY_PATTERNS, in their order, that matches the text, with the
\* noise words removed and title-cased (the capture itself title-cased when
\* nothing is left), "Unknown" when no pattern matches, and never empty.
C26_FirstMatchCleaned ==
    (pc = "done" /\ entry = "parse_sms") =>
        /\ result.val.counterparty =
              JStr(FirstMatchCounterparty(strip(lower(argument.text))))
        /\ result.val.counterparty.s # <<>>

\* the part of C26 that holds: the same when the first match's cleaned
\* capture is longer than one character, and the counterparty is never empty
C26_FirstLongMatchCleaned ==
    (pc = "done" /\ entry = "parse_sms") =>
        /\ Len(FirstMatchCounterparty(strip(lower(argument.text)))) > 1 =>
              result.val.counterparty =
                  JStr(FirstMatchCounterparty(strip(lower(argument.text))))
        /\ result.val.counterparty.s # <<>>

\* the label of an amount in hundredths: 25000 and more, 10000 up to 25000,
\* 3000 up to 10000, less
AmountTier(amount) ==
    IF amount >= 2500000 THEN "High-Value Expense"
    ELSE IF 1000000 <= amount /\ amount < 2500000 THEN "Large Expense"
    ELSE IF 300000 <= amount /\ amount < 1000000 THEN "General Expense"
    ELSE "Uncategorized"

\* C27: categorize_transaction returns the tier of the amount when no keyword
\* of category_map occurs in the text, and the category of a keyword that
\* occurs, whatever the amount, when one does.
C27_AmountTiers ==
    (pc = "done" /\ entry = "categorize_transaction") =>
        IF KeywordHits(argument.text) = {}
        THEN result.val = AmountTier(argument.amount)
        ELSE /\ result.val \in {category_map[n].category :
                                   n \in KeywordHits(argument.text)}
             /\ \A a \in AMOUNTS :
                   categorize_transaction(JStr(argument.text), JNum(a)) = result.val

\* a text without a keyword and an amount of exactly 10000
C27_Witness ==
    /\ pc = "done"
    /\ entry = "categorize_transaction"
    /\ KeywordHits(argument.text) = {}
    /\ argument.amount = 1000000
    /\ result.val = "Large Expense"

\* the latest check was reported as a duplicate
Duplicate == result.val.reason = "Duplicate transaction detected."

\* C28: check reports a duplicate exactly when an entry with the amount and
\* the merchant of the check is among the five most recently recorded
\* entries; so a check that repeats the transaction recorded last is
\* reported, and one that repeats only the amount, only the merchant, or an
\* entry further back is not.
C28_DuplicateIffAmongLastFive ==
    [][entry' = "check" =>
         /\ Duplicate' =
               (\E i \in DOMAIN recent_transactions :
                   /\ Len(recent_transactions) - i < 5
                   /\ recent_transactions[i].amount = argument'.amount
                   /\ recent_transactions[i].merchant = argument'.merchant)
         /\ (/\ recent_transactions # <<>>
             /\ recent_transactions[Len(recent_transactions)].amount = argument'.amount
             /\ recent_transactions[Len(recent_transactions)].merchant = argument'.merchant)
               => Duplicate']_vars

\* the fifth most recent entry, and no entry after it, was checked once more
\* and reported
C28_Witness ==
    /\ entry = "check"
    /\ Duplicate
    /\ Len(recent_transactions) >= 6
    /\ recent_transactions[Len(recent_transactions) - 4] = CheckedEntry
    /\ \A i \in DOMAIN recent_transactions :
          i > Len(recent_transactions) - 4 => recent_transactions[i] # CheckedEntry

\* the sixth most recent entry was checked once more and recorded again
C28_SixthBackRecorded ==
    /\ entry = "check"
    /\ ~Duplicate
    /\ Len(recent_transactions) >= 7
    /\ recent_transactions[Len(recent_transactions) - 6] = CheckedEntry
    /\ recent_transactions[Len(recent_transactions)] = CheckedEntry

\* the latest amount was checked for another merchant and recorded
C28_OtherMerchantRecorded ==
    /\ entry = "check"
    /\ ~Duplicate
    /\ Len(recent_transactions) >= 2
    /\ argument.merchant = "Restaurant"
    /\ recent_transactions[Len(recent_transactions) - 1].amount = argument.amount
    /\ recent_transactions[Len(recent_transactions)] = CheckedEntry

\* C29: a check reported as a duplicate leaves recent_transactions as it
\* was, and a check of the amount and merchant of the check before it is
\* reported as a duplicate, however many times it is repeated.
C29_DuplicateLeavesWindow ==
    /\ [][(entry' = "check" /\ Duplicate') =>
            recent_transactions' = recent_transactions]_vars
    /\ [][(entry = "check" /\ entry' = "check" /\ CheckedEntry' = CheckedEntry) =>
            Duplicate']_vars
    /\ [](entry = "check" =>
            \E i \in DOMAIN recent_transactions :
                /\ Len(recent_transactions) - i < 5
                /\ recent_transactions[i] = CheckedEntry)

\* the entry recorded last was checked once more on a full window from
\* which two entries had been evicted, and reported
C29_Witness ==
    /\ entry = "check"
    /\ Duplicate
    /\ Len(recent_transactions) = 20
    /\ recent_transactions[20] = CheckedEntry
    /\ recent_transactions[1].amount = 300000
    /\ argument.category = "Travel"

\* the threads that have passed `while self.is_running` and are about to
\* run the pending jobs
LoopThreads == {t \in DOMAIN threads : threads[t] = "run_pending"}

\* C30: whatever start and stop calls were made, at most one thread is in
\* the body of the scheduler loop, and each of the jobs of start is
\* registered at most once.
C30_OneThreadJobsOnce ==
    /\ Cardinality(LoopThreads) <= 1
    /\ \A j \in DOMAIN SCHEDULED_JOBS :
          Cardinality({k \in DOMAIN schedule_jobs :
                          schedule_jobs[k] = SCHEDULED_JOBS[j]}) <= 1

\* the part of C30 that holds: each job is registered at most once, start
\* on a running scheduler registers no job and starts no thread, and while
\* the scheduler is stopped no job is registered
C30_JobsOnceStartIdempotent ==
    /\ [](\A j \in DOMAIN SCHEDULED_JOBS :
            Cardinality({k \in DOMAIN schedule_jobs :
                            schedule_jobs[k] = SCHEDULED_JOBS[j]}) <= 1)
    /\ [](~is_running => schedule_jobs = <<>>)
    /\ [][(is_running /\ is_running') =>
            schedule_jobs' = schedule_jobs /\ threads' \in [DOMAIN threads -> STRING]]_vars

====
